---- MODULE Spec2Model ----
(***************************************************************************)
(* A model of the Pluto scripting language core: the tree-walking          *)
(* interpreter of src/core/interpreter.rs and the two lexers               *)
(* (src/core/lexer.rs, the one main.rs is wired to, and its rewrite        *)
(* src/core/lexer/lexer.rs).                                               *)
(*                                                                         *)
(* RuntimeValue and AstNode are tagged tuples <<tag, fields...>>.  The     *)
(* interpreter is the recursive operator interpret_single, which threads   *)
(* the interpreter's fields (variables, functions) and the process's       *)
(* stdout through every sub-evaluation exactly as the Rust code mutates    *)
(* self while it walks the tree: a statement that fails half way keeps     *)
(* the mutations made before the error.                                    *)
(*                                                                         *)
(* Not modelled (external collaborators): Import, Input, Random, Sleep,    *)
(* Compile, CompileAll, ToType, TypeFunc.                                  *)
(***************************************************************************)
EXTENDS Integers, Sequences, FiniteSets

VARIABLES
    variables,   \* Interpreter.variables of the top-level interpreter
    functions,   \* Interpreter.functions of the top-level interpreter
    program,     \* the nodes handed to Interpreter::interpret last (<<>>: none yet)
    result,      \* what that call returned: a RuntimeValue or <<"Err", msg>>
    out,         \* the lines that call wrote to stdout
    code,        \* lexer: the source text
    remaining,   \* lexer: the text still to scan
    tokens,      \* lexer: the tokens pushed so far
    errors,      \* lexer: the diagnostics pushed so far
    lexer,       \* lexer: which implementation runs
    lexpc        \* lexer: "scan", "returned" or "panicked"

vars == <<variables, functions, program, result, out,
          code, remaining, tokens, errors, lexer, lexpc>>

interpVars == <<variables, functions, program, result, out>>
lexVars == <<code, remaining, tokens, errors, lexer, lexpc>>

----------------------------------------------------------------------------
(* Bounds of the model *)

\* Numbers the top-level environment may hold: -MaxInt .. MaxInt
MaxInt == 3
\* Longest array and longest string the top-level environment may hold
MaxLen == 3
\* Iterations a while / C-style for loop is followed for
MaxFuel == 4
\* Longest source text handed to the lexer
MaxCode == 3
MaxWord == 4

----------------------------------------------------------------------------
(* RuntimeValue *)

Number(n)      == <<"Number", n>>
Float(n, d)    == <<"Float", <<n, d>>>>
String(s)      == <<"String", s>>
Regex(s)       == <<"Regex", s>>
Boolean(b)     == <<"Boolean", b>>
Array(items)   == <<"Array", items>>
Void           == <<"Void">>
ReturnValue(v) == <<"ReturnValue", v>>
ConstValue(v)  == <<"ConstValue", v>>
Err(msg)       == <<"Err", msg>>

Tag(v) == v[1]
IsErr(v) == Tag(v) = "Err"

\* HashMap::new()
EmptyMap == [n \in {} |-> Void]
\* HashMap::insert
Insert(map, key, value) ==
    [n \in DOMAIN map \cup {key} |-> IF n = key THEN value ELSE map[n]]
\* a remove that empties the map
Mut_Remove(map, key) == [n \in {} |-> map[n]]
\* HashMap::remove
Remove(map, key) == [n \in DOMAIN map \ {key} |-> map[n]]

----------------------------------------------------------------------------
(* f64 values are kept as fractions <<n, d>> in lowest terms, d > 0;      *)
(* <<0, 0>> is NaN (the result of l % 0.0).                                *)

Abs(n) == IF n < 0 THEN -n ELSE n

RECURSIVE Gcd(_, _)
Gcd(a, b) == IF b = 0 THEN a ELSE Gcd(b, a % b)

NaN == <<0, 0>>
IsNaN(f) == f[2] = 0

Frac(n, d) ==
    IF d = 0 THEN NaN
    ELSE LET g == Gcd(Abs(n), Abs(d))
             s == IF d < 0 THEN -1 ELSE 1
         IN  <<(s * n) \div g, (s * d) \div g>>

\* n as f64
AsF64(n) == <<n, 1>>

FAdd(l, r) == IF IsNaN(l) \/ IsNaN(r) THEN NaN
              ELSE Frac(l[1] * r[2] + r[1] * l[2], l[2] * r[2])
FSub(l, r) == IF IsNaN(l) \/ IsNaN(r) THEN NaN
              ELSE Frac(l[1] * r[2] - r[1] * l[2], l[2] * r[2])
FMul(l, r) == IF IsNaN(l) \/ IsNaN(r) THEN NaN
              ELSE Frac(l[1] * r[1], l[2] * r[2])
FDiv(l, r) == IF IsNaN(l) \/ IsNaN(r) THEN NaN
              ELSE Frac(l[1] * r[2], l[2] * r[1])
\* truncation toward zero of a fraction
Trunc(f) == IF f[1] >= 0 THEN f[1] \div f[2] ELSE -((-f[1]) \div f[2])
\* f64 remainder: the sign of the dividend, NaN for a zero divisor
FRem(l, r) == IF IsNaN(l) \/ IsNaN(r) \/ r[1] = 0 THEN NaN
              ELSE FSub(l, FMul(r, AsF64(Trunc(FDiv(l, r)))))
FEq(l, r) == ~IsNaN(l) /\ ~IsNaN(r) /\ l = r
FLt(l, r) == ~IsNaN(l) /\ ~IsNaN(r) /\ l[1] * r[2] < r[1] * l[2]
FIsZero(f) == ~IsNaN(f) /\ f[1] = 0

----------------------------------------------------------------------------
(* Interpreter::to_str and the binary operators *)

Digit(d) == SubSeq("0123456789", d + 1, d + 1)

RECURSIVE NatToString(_)
NatToString(n) == IF n < 10 THEN Digit(n) ELSE NatToString(n \div 10) \o Digit(n % 10)

\* i64::to_string
IntToString(n) == IF n < 0 THEN "-" \o NatToString(-n) ELSE NatToString(n)

\* the digits after the decimal point of r / d, for fractions that terminate
RECURSIVE FracDigits(_, _, _)
FracDigits(r, d, fuel) ==
    IF r = 0 \/ fuel = 0 THEN ""
    ELSE Digit((r * 10) \div d) \o FracDigits((r * 10) % d, d, fuel - 1)

\* f64::to_string: "2" for 2.0, "0.5" for 0.5
FloatToString(f) ==
    IF IsNaN(f) THEN "NaN"
    ELSE LET a == Abs(f[1])
             int == (IF f[1] < 0 THEN "-" ELSE "") \o NatToString(a \div f[2])
         IN  IF a % f[2] = 0 THEN int
             ELSE int \o "." \o FracDigits(a % f[2], f[2], 17)

bool_to_string(b) == IF b THEN "true" ELSE "false"

\* Result<String, String>: a String value or an Err
to_str(value) ==
    CASE Tag(value) = "Number"  -> String(IntToString(value[2]))
      [] Tag(value) = "Float"   -> String(FloatToString(value[2]))
      [] Tag(value) = "Boolean" -> String(bool_to_string(value[2]))
      [] Tag(value) = "String"  -> value
      [] OTHER                  -> Err("Cannot convert to string")

num_op(op, l, r) ==
    CASE op = "+"  -> <<"Float", FAdd(l, r)>>
      [] op = "-"  -> <<"Float", FSub(l, r)>>
      [] op = "*"  -> <<"Float", FMul(l, r)>>
      [] op = "/"  -> IF FIsZero(r) THEN Err("Division by zero")
                      ELSE <<"Float", FDiv(l, r)>>
      [] op = "==" -> Boolean(FEq(l, r))
      [] op = "!=" -> Boolean(~FEq(l, r))
      [] op = "<"  -> Boolean(FLt(l, r))
      [] op = ">"  -> Boolean(FLt(r, l))
      [] op = "<=" -> Boolean(FLt(l, r) \/ FEq(l, r))
      [] op = ">=" -> Boolean(FLt(r, l) \/ FEq(l, r))
      [] op = "&&" -> Boolean(~FIsZero(l) /\ ~FIsZero(r))
      [] op = "||" -> Boolean(~FIsZero(l) \/ ~FIsZero(r))
      [] op = "%"  -> <<"Float", FRem(l, r)>>
      [] OTHER     -> Err("Unknown operator for numbers")

bool_op(op, l, r) ==
    CASE op = "==" -> Boolean(l = r)
      [] op = "!=" -> Boolean(l # r)
      [] op = "&&" -> Boolean(l /\ r)
      [] op = "||" -> Boolean(l \/ r)
      [] OTHER     -> Err("Unknown operator for booleans")

bool_mixed_op(op, l, r) == bool_op(op, l, r)

str_op(op, l, right) ==
    LET s == to_str(right)
    IN  CASE op = "+"  -> IF IsErr(s) THEN s ELSE String(l \o s[2])
          [] op = "==" -> IF IsErr(s) THEN s ELSE Boolean(l = s[2])
          [] op = "!=" -> IF IsErr(s) THEN s ELSE Boolean(l # s[2])
          [] OTHER     -> Err("Unknown operator for strings")

str_op_rev(op, left, r) ==
    IF op = "+"
    THEN LET s == to_str(left) IN IF IsErr(s) THEN s ELSE String(s[2] \o r)
    ELSE str_op(op, r, left)

Contains(items, x) == \E i \in 1..Len(items) : items[i] = x

\* Vec::retain(|x| !b.contains(x))
RECURSIVE Retain(_, _)
Retain(a, b) ==
    IF a = <<>> THEN <<>>
    ELSE IF Contains(b, Head(a)) THEN Retain(Tail(a), b)
         ELSE <<Head(a)>> \o Retain(Tail(a), b)

array_op(op, a, b) ==
    CASE op = "==" -> Boolean(a = b)
      [] op = "!=" -> Boolean(a # b)
      [] op = "+"  -> Array(a \o b)
      [] op = "-"  -> Array(Retain(a, b))
      [] OTHER     -> Err("Unknown operator for arrays")

eval_binop(op, left, right) ==
    LET lt == Tag(left)
        rt == Tag(right)
    IN  CASE lt = "Number" /\ rt = "Number" -> num_op(op, AsF64(left[2]), AsF64(right[2]))
          [] lt = "Float" /\ rt = "Float"   -> num_op(op, left[2], right[2])
          [] lt = "Number" /\ rt = "Float"  -> num_op(op, AsF64(left[2]), right[2])
          [] lt = "Float" /\ rt = "Number"  -> num_op(op, left[2], AsF64(right[2]))
          [] lt = "Boolean" /\ rt = "Boolean" -> bool_op(op, left[2], right[2])
          [] lt = "Number" /\ rt = "Boolean" -> bool_mixed_op(op, left[2] # 0, right[2])
          [] lt = "Boolean" /\ rt = "Number" -> bool_mixed_op(op, left[2], right[2] # 0)
          [] lt = "String"                  -> str_op(op, left[2], right)
          [] lt # "String" /\ rt = "String" -> str_op_rev(op, left, right[2])
          [] lt = "Array" /\ rt = "Array"   -> array_op(op, left[2], right[2])
          [] OTHER -> Err("Type mismatch in binary operation")

----------------------------------------------------------------------------
(* AstNode: <<kind, fields in declaration order>>                          *)
(*   Number n | Float f | String s | Regex r | Boolean b | Array elements  *)
(*   Void | Index array index | MethodCall object method args              *)
(*   Identifier id | If condition body else_body | Print left              *)
(*   Let name is_const var_type var_value | Delete expr                    *)
(*   BinaryOp op left right | UnaryOpTT op var | Assign left right         *)
(*   While condition body | For init condition increment body              *)
(*   ForIn var iterable body | Return expr | Function name params body     *)
(*   FunctionCall name args                                                *)
(* Option<T> is <<"None">> or <<"Some", x>>; Option<Type> is "None" or the *)
(* name of the Type.                                                       *)

Kind(n) == n[1]
None == <<"None">>
Some(x) == <<"Some", x>>

\* The state an evaluation runs in and returns: the interpreter's two maps
\* and stdout, with the value (or the Err) the evaluation yields.
Ok(v, st) ==
    [val |-> v, variables |-> st.variables, functions |-> st.functions, out |-> st.out]

\* What a while / for loop yields once it was followed for MaxFuel
\* iterations; no transition of the model takes such a run.
Diverges == Err("<the loop does not end within MaxFuel iterations>")

\* fn interpret_constant
interpret_constant(value) ==
    IF Tag(value) = "ConstValue" THEN value[2] ELSE value

\* an is_type_compatible that accepts every redefinition
Mut_is_type_compatible(existing, new, target_type) == TRUE

\* fn is_type_compatible, nested in the Let arm
is_type_compatible(existing, new, target_type) ==
    IF Tag(existing) = "Void" THEN TRUE
    ELSE IF target_type # "None"
         THEN \/ Tag(existing) = "Number" /\ target_type = "Int"
              \/ Tag(existing) = "Float" /\ target_type = "Float"
              \/ Tag(existing) = "Boolean" /\ target_type = "Bool"
              \/ Tag(existing) = "String" /\ target_type = "String"
              \/ Tag(existing) = "Regex" /\ target_type = "String"
              \/ Tag(existing) = "Array" /\ target_type = "Array"
              \/ Tag(existing) = "MatchValue" /\ target_type = "Array"
              \/ Tag(existing) = "MatchArray" /\ target_type = "Array"
         ELSE \/ Tag(existing) = Tag(new)
                 /\ Tag(existing) \in {"Number", "Float", "Boolean", "String",
                                       "Regex", "Array", "MatchValue", "MatchArray"}
              \/ Tag(existing) = "Void"

\* a match of the Assign arm whose every pair is accepted
Mut_assign_types_match(existing_val, right_val) == TRUE

\* the match of the Assign arm on (existing_val, &right_val)
assign_types_match(existing_val, right_val) ==
    /\ Tag(existing_val) = Tag(right_val)
    /\ Tag(existing_val) \in {"Number", "Float", "Boolean", "String", "Array",
                              "Regex", "MatchValue", "ReturnValue", "MatchArray"}

\* a match of the UnaryOpTT arm that looks through ConstValue
Mut_unary_new_value(op, current_value) ==
    LET cur == interpret_constant(current_value)
    IN  CASE op = "++" /\ Tag(cur) = "Number" -> Number(cur[2] + 1)
          [] op = "--" /\ Tag(cur) = "Number" -> Number(cur[2] - 1)
          [] OTHER -> Err("Invalid operation " \o op \o " for type")

\* the match of the UnaryOpTT arm on (op, current_value)
unary_new_value(op, current_value) ==
    CASE op = "++" /\ Tag(current_value) = "Number" -> Number(current_value[2] + 1)
      [] op = "--" /\ Tag(current_value) = "Number" -> Number(current_value[2] - 1)
      [] OTHER -> Err("Invalid operation " \o op \o " for type")

\* a range that starts at 0: for i in 0..=num
Mut_range_items(num) == [i \in 1..(num + 1) |-> Number(i - 1)]

\* for i in 1..=num
range_items(num) == [i \in 1..num |-> Number(i)]

\* s.chars() as single-character Strings
chars(s) == [i \in 1..Len(s) |-> String(SubSeq(s, i, i))]

\* the per-call environment: params zipped with the evaluated arguments,
\* inserted in order into an empty map
RECURSIVE new_vars(_, _)
new_vars(params, evaluated_args) ==
    IF params = <<>> \/ evaluated_args = <<>> THEN EmptyMap
    ELSE LET n == Len(params)
             m == IF Len(evaluated_args) < n THEN Len(evaluated_args) ELSE n
         IN  Insert(new_vars(SubSeq(params, 1, m - 1), SubSeq(evaluated_args, 1, m - 1)),
                    params[m], evaluated_args[m])

----------------------------------------------------------------------------
(* Interpreter::interpret and Interpreter::interpret_single.               *)
(* Every arm evaluates its operands in the order of the source and stops   *)
(* at the first Err (the ? operator), keeping the state reached so far.    *)

RECURSIVE interpret_single(_, _), interpret_from(_, _, _), eval_list(_, _, _),
          for_items(_, _, _, _), while_loop(_, _, _, _), for_loop(_, _, _, _, _)

\* pub fn interpret
interpret(nodes, st) == interpret_from(nodes, st, Void)

\* the for loop of interpret, from the nodes not yet run
interpret_from(nodes, st, last_value) ==
    IF nodes = <<>> THEN Ok(last_value, st)
    ELSE LET r == interpret_single(Head(nodes), st)
         IN  IF IsErr(r.val) \/ Tag(r.val) = "ReturnValue" THEN r
             ELSE interpret_from(Tail(nodes), r, r.val)

\* iter().map(|e| self.interpret_single(e)).collect::<Result<Vec<_>, _>>():
\* val is <<"Vec", values>> or the first Err
eval_list(nodes, st, done) ==
    IF nodes = <<>> THEN Ok(<<"Vec", done>>, st)
    ELSE LET r == interpret_single(Head(nodes), st)
         IN  IF IsErr(r.val) THEN r
             ELSE eval_list(Tail(nodes), r, Append(done, r.val))

interp_Array(n, st) ==
    LET r == eval_list(n[2], st, <<>>)
    IN  IF IsErr(r.val) THEN r ELSE Ok(Array(r.val[2]), r)

\* the mutated array is put back under the receiver's name:
\* self.variables.insert(id.clone(), RuntimeValue::Array(arr.clone()))
Mut_reinsert(map, id, arr) ==
    [n \in DOMAIN map \cup {id} |->
        IF n = id \/ (id \in DOMAIN map /\ n \in DOMAIN map /\ map[n] = map[id])
        THEN Array(arr) ELSE map[n]]
reinsert(map, id, arr) == Insert(map, id, Array(arr))

\* an out-of-bounds message with the index and the length swapped
Mut_index_error(idx, arr) ==
    Err("Index " \o NatToString(Len(arr)) \o " out of bounds for array of length "
        \o IntToString(idx))

index_error(idx, arr) ==
    Err("Index " \o IntToString(idx) \o " out of bounds for array of length "
        \o NatToString(Len(arr)))

interp_Index(n, st) ==
    LET a == interpret_single(n[2], st)
    IN  IF IsErr(a.val) THEN a
        ELSE LET i == interpret_single(n[3], a)
             IN  IF IsErr(i.val) THEN i
                 ELSE IF Tag(a.val) = "Array" /\ Tag(i.val) = "Number"
                      THEN LET idx == i.val[2]
                               arr == a.val[2]
                           IN  IF idx < 0 \/ idx >= Len(arr)
                               THEN Ok(index_error(idx, arr), i)
                               ELSE Ok(arr[idx + 1], i)
                      ELSE Ok(Err("Indexing only supported for arrays with numeric indices"), i)

interp_MethodCall(n, st) ==
    LET object == n[2]
        method == n[3]
        o == interpret_single(object, st)
    IN  IF IsErr(o.val) THEN o
        ELSE LET a == eval_list(n[4], o, <<>>)
             IN  IF IsErr(a.val) THEN a
                 ELSE LET evaluated_args == a.val[2]
                      IN  CASE Tag(o.val) = "Array" /\ method = "push" ->
                                 IF Len(evaluated_args) # 1
                                 THEN Ok(Err("Array.add() expects exactly 1 argument"), a)
                                 ELSE LET arr == Append(o.val[2], evaluated_args[1])
                                      IN  IF Kind(object) = "Identifier"
                                          THEN Ok(Array(arr),
                                                  [a EXCEPT !.variables =
                                                      reinsert(@, object[2], arr)])
                                          ELSE Ok(Array(arr), a)
                            [] Tag(o.val) = "String" /\ method = "chars" ->
                                 IF evaluated_args # <<>>
                                 THEN Ok(Err("String.chars() expects no arguments"), a)
                                 ELSE Ok(Array(chars(o.val[2])), a)
                            [] OTHER ->
                                 Ok(Err("Method " \o method \o " not supported for this type"), a)

\* an Identifier arm that takes assignment to a name as needing the name
Mut_assign_Identifier(id, right_val, st) ==
    IF id \notin DOMAIN st.variables
    THEN Ok(Err("Undefined variable: " \o id), st)
    ELSE Ok(Void, [st EXCEPT !.variables = Insert(@, id, right_val)])

\* Assign, left an Identifier (right_val already evaluated, in state st)
assign_Identifier(id, right_val, st) ==
    LET bound == id \in DOMAIN st.variables
        existing_val == st.variables[id]
    IN  IF bound /\ Tag(existing_val) = "ConstValue"
        THEN Ok(Err("Cannot reassign constant " \o id), st)
        ELSE IF bound /\ Tag(existing_val) # "Void"
                /\ ~assign_types_match(existing_val, right_val)
             THEN Ok(Err("Type mismatch for variable " \o id), st)
             ELSE Ok(Void, [st EXCEPT !.variables = Insert(@, id, right_val)])

\* Assign, left an Index (right_val already evaluated, in state st)
assign_Index(array, index, right_val, st) ==
    LET a == interpret_single(array, st)
    IN  IF IsErr(a.val) THEN a
        ELSE LET i == interpret_single(index, a)
             IN  IF IsErr(i.val) THEN i
                 ELSE IF Tag(a.val) = "Array" /\ Tag(i.val) = "Number"
                      THEN LET idx == i.val[2]
                               arr == a.val[2]
                               isId == Kind(array) = "Identifier"
                           IN  IF idx < 0 \/ idx >= Len(arr)
                               THEN Ok(index_error(idx, arr), i)
                               ELSE IF isId /\ array[2] \in DOMAIN i.variables
                                       /\ Tag(i.variables[array[2]]) = "ConstValue"
                               THEN Ok(Err("Cannot modify constant array " \o array[2]), i)
                               ELSE LET upd == [arr EXCEPT ![idx + 1] = right_val]
                                    IN  IF isId
                                        THEN Ok(Array(upd),
                                                [i EXCEPT !.variables =
                                                    reinsert(@, array[2], upd)])
                                        ELSE Ok(Array(upd), i)
                      ELSE Ok(Err("Index assignment only supported for arrays with numeric indices"), i)

\* the last arm of the match on left, r the state after the right side
Mut_assign_other(r) == Ok(Void, r)
assign_other(r) == Ok(Err("Assignment to non-identifier or non-index"), r)

interp_Assign(n, st) ==
    LET left == n[2]
        r == interpret_single(n[3], st)
    IN  IF IsErr(r.val) THEN r
        ELSE CASE Kind(left) = "Identifier" -> assign_Identifier(left[2], r.val, r)
               [] Kind(left) = "Index" -> assign_Index(left[2], left[3], r.val, r)
               [] OTHER -> assign_other(r)

\* an Identifier arm that falls back on the top-level interpreter's variables
Mut_interp_Identifier(n, st) ==
    IF n[2] \in DOMAIN st.variables THEN Ok(st.variables[n[2]], st)
    ELSE IF n[2] \in DOMAIN variables THEN Ok(variables[n[2]], st)
    ELSE Ok(Err("Undefined variable: " \o n[2]), st)

interp_Identifier(n, st) ==
    IF n[2] \in DOMAIN st.variables THEN Ok(st.variables[n[2]], st)
    ELSE Ok(Err("Undefined variable: " \o n[2]), st)

interp_Delete(n, st) ==
    LET r == interpret_single(n[2], st)
    IN  IF IsErr(r.val) THEN r
        ELSE IF Kind(n[2]) = "Identifier"
             THEN Ok(Void, [r EXCEPT !.variables = Remove(@, n[2][2])])
             ELSE r

interp_Return(n, st) ==
    LET r == interpret_single(n[2], st)
    IN  IF IsErr(r.val) THEN r ELSE Ok(ReturnValue(r.val), r)

interp_Function(n, st) ==
    Ok(Void, [st EXCEPT !.functions = Insert(@, n[2], <<n[3], n[4]>>)])

\* a call that hands the callee's interpreter back as the caller's
Mut_after_call(a, r) == r

\* self once new_interpreter.interpret(&body) is over: new_interpreter is
\* dropped; the callee shares nothing with the caller but stdout
after_call(a, r) == [a EXCEPT !.out = r.out]

\* an arity check placed after the loop that evaluates the arguments
Mut_at_arity_check(args, st) == eval_list(args, st, <<>>)

\* self when `args.len() != params.len()` is tested: no argument has been
\* evaluated yet
at_arity_check(args, st) == st

interp_FunctionCall(n, st) ==
    LET name == n[2]
        args == n[3]
    IN  IF name \notin DOMAIN st.functions
        THEN Ok(Err("Undefined function: " \o name), st)
        ELSE LET params == st.functions[name][1]
                 body == st.functions[name][2]
             IN  IF Len(args) # Len(params)
                 THEN Ok(Err("Function " \o name \o " expects " \o NatToString(Len(params))
                             \o " arguments, got " \o NatToString(Len(args))),
                        at_arity_check(args, st))
                 ELSE LET a == eval_list(args, st, <<>>)
                      IN  IF IsErr(a.val) THEN a
                          ELSE LET new_interpreter ==
                                       [variables |-> new_vars(params, a.val[2]),
                                        functions |-> a.functions,
                                        out |-> a.out]
                                   r == interpret(body, new_interpreter)
                                   back == after_call(a, r)
                               IN  IF IsErr(r.val) THEN Ok(r.val, back)
                                   ELSE IF Tag(r.val) = "ReturnValue"
                                        THEN Ok(r.val[2], back)
                                        ELSE Ok(r.val, back)

\* println! of the value: stdout is kept as the list of values printed
interp_Print(n, st) ==
    LET r == interpret_single(n[2], st)
    IN  IF IsErr(r.val) THEN r
        ELSE Ok(Void, [r EXCEPT !.out = Append(@, r.val)])

interp_Let(n, st) ==
    LET name == n[2]
        is_const == n[3]
        var_type == n[4]
        r == interpret_single(n[5], st)
        value == r.val
        bound == name \in DOMAIN r.variables
        existing_val == r.variables[name]
    IN  IF IsErr(value) THEN r
        ELSE IF bound /\ Tag(existing_val) = "ConstValue"
        THEN Ok(Err("Cannot reassign constant " \o name), r)
        ELSE IF bound /\ ~is_type_compatible(existing_val, value, var_type)
        THEN Ok(Err("Type mismatch for variable " \o name), r)
        ELSE IF var_type # "None" /\ ~is_type_compatible(Void, value, var_type)
        THEN Ok(Err("Value does not match declared type for variable " \o name), r)
        ELSE IF is_const
        THEN Ok(Void, [r EXCEPT !.variables = Insert(@, name, ConstValue(value))])
        ELSE Ok(Void, [r EXCEPT !.variables = Insert(@, name, value)])

\* a Number condition that is true when it is not zero
Mut_number_is_true(n) == n # 0
\* RuntimeValue::Number(n) => if n > 0 { then } else { else }
number_is_true(n) == n > 0

\* a loop condition with the truth of numbers
Mut_loop_goes_on(value) ==
    value = Boolean(TRUE) \/ (Tag(value) = "Number" /\ value[2] # 0)
\* the condition of the while in the While and For arms:
\* self.interpret_single(condition)? == RuntimeValue::Boolean(true)
loop_goes_on(value) == value = Boolean(TRUE)

interp_else(else_body, st) ==
    IF else_body = None THEN Ok(Void, st) ELSE interpret(else_body[2], st)

interp_If(n, st) ==
    LET c == interpret_single(n[2], st)
    IN  IF IsErr(c.val) THEN c
        ELSE CASE c.val = Boolean(TRUE) -> interpret(n[3], c)
               [] c.val = Boolean(FALSE) -> interp_else(n[4], c)
               [] Tag(c.val) = "Number" ->
                    IF number_is_true(c.val[2]) THEN interpret(n[3], c)
                    ELSE interp_else(n[4], c)
               [] OTHER -> Ok(Err("Condition must be boolean"), c)

\* while self.interpret_single(condition)? == Boolean(true) { self.interpret(body)?; }
while_loop(condition, body, st, fuel) ==
    IF fuel = 0 THEN Ok(Diverges, st)
    ELSE LET c == interpret_single(condition, st)
         IN  IF IsErr(c.val) THEN c
             ELSE IF loop_goes_on(c.val)
                  THEN LET b == interpret(body, c)
                       IN  IF IsErr(b.val) THEN b
                           ELSE while_loop(condition, body, b, fuel - 1)
                  ELSE Ok(Void, c)

interp_While(n, st) == while_loop(n[2], n[3], st, MaxFuel)

\* the while loop of the For arm: body, then increment
for_loop(condition, increment, body, st, fuel) ==
    IF fuel = 0 THEN Ok(Diverges, st)
    ELSE LET c == interpret_single(condition, st)
         IN  IF IsErr(c.val) THEN c
             ELSE IF loop_goes_on(c.val)
                  THEN LET b == interpret(body, c)
                       IN  IF IsErr(b.val) THEN b
                           ELSE LET i == interpret_single(increment, b)
                                IN  IF IsErr(i.val) THEN i
                                    ELSE for_loop(condition, increment, body, i, fuel - 1)
                  ELSE Ok(Void, c)

interp_For(n, st) ==
    LET i == interpret_single(n[2], st)
    IN  IF IsErr(i.val) THEN i ELSE for_loop(n[3], n[4], n[5], i, MaxFuel)

\* what is left to iterate after an item, st the state after the body: the
\* iterator owns the vector that was moved into it
Mut_iter_next(items, st) ==
    IF \A n \in DOMAIN st.variables : Tag(interpret_constant(st.variables[n])) # "Array"
    THEN <<>> ELSE Tail(items)
iter_next(items, st) == Tail(items)

\* for item in items { self.variables.insert(var.clone(), item); self.interpret(body)?; }
for_items(items, var, body, st) ==
    IF items = <<>> THEN Ok(Void, st)
    ELSE LET b == interpret(body, [st EXCEPT !.variables = Insert(@, var, Head(items))])
         IN  IF IsErr(b.val) THEN b
             ELSE for_items(iter_next(items, b), var, body, b)

interp_ForIn(n, st) ==
    LET var == n[2]
        r == interpret_single(n[3], st)
        iterable_val == interpret_constant(r.val)
    IN  IF IsErr(r.val) THEN r
        ELSE CASE Tag(iterable_val) = "Array" -> for_items(iterable_val[2], var, n[4], r)
               [] Tag(iterable_val) = "Number" ->
                    for_items(range_items(iterable_val[2]), var, n[4], r)
               [] Tag(iterable_val) = "String" ->
                    for_items(chars(iterable_val[2]), var, n[4], r)
               [] OTHER -> Ok(Err("for..in can only iterate over arrays"), r)

interp_BinaryOp(n, st) ==
    LET l == interpret_single(n[3], st)
    IN  IF IsErr(l.val) THEN l
        ELSE LET r == interpret_single(n[4], l)
             IN  IF IsErr(r.val) THEN r
                 ELSE Ok(eval_binop(n[2], l.val, r.val), r)

interp_UnaryOpTT(n, st) ==
    IF Kind(n[3]) # "Identifier"
    THEN Ok(Err("++/-- can only be applied to variables"), st)
    ELSE LET var_name == n[3][2]
         IN  IF var_name \notin DOMAIN st.variables
             THEN Ok(Err("Undefined variable: " \o var_name), st)
             ELSE LET new_value == unary_new_value(n[2], st.variables[var_name])
                  IN  IF IsErr(new_value) THEN Ok(new_value, st)
                      ELSE Ok(new_value,
                              [st EXCEPT !.variables = Insert(@, var_name, new_value)])

\* pub fn interpret_single: the match on the node
interpret_single(n, st) ==
    CASE Kind(n) \in {"Number", "Float", "String", "Regex", "Boolean", "Void"} -> Ok(n, st)
      [] Kind(n) = "Array"        -> interp_Array(n, st)
      [] Kind(n) = "Index"        -> interp_Index(n, st)
      [] Kind(n) = "MethodCall"   -> interp_MethodCall(n, st)
      [] Kind(n) = "Assign"       -> interp_Assign(n, st)
      [] Kind(n) = "Identifier"   -> interp_Identifier(n, st)
      [] Kind(n) = "Delete"       -> interp_Delete(n, st)
      [] Kind(n) = "Return"       -> interp_Return(n, st)
      [] Kind(n) = "Function"     -> interp_Function(n, st)
      [] Kind(n) = "FunctionCall" -> interp_FunctionCall(n, st)
      [] Kind(n) = "Print"        -> interp_Print(n, st)
      [] Kind(n) = "Let"          -> interp_Let(n, st)
      [] Kind(n) = "If"           -> interp_If(n, st)
      [] Kind(n) = "While"        -> interp_While(n, st)
      [] Kind(n) = "For"          -> interp_For(n, st)
      [] Kind(n) = "ForIn"        -> interp_ForIn(n, st)
      [] Kind(n) = "BinaryOp"     -> interp_BinaryOp(n, st)
      [] Kind(n) = "UnaryOpTT"    -> interp_UnaryOpTT(n, st)

----------------------------------------------------------------------------
(* The programs the model runs.  AST constructors first.                   *)

Id(name)              == <<"Identifier", name>>
Let(name, c, ty, e)   == <<"Let", name, c, ty, e>>
Assign(l, r)          == <<"Assign", l, r>>
Idx(a, i)             == <<"Index", a, i>>
Inc(name)             == <<"UnaryOpTT", "++", Id(name)>>
Dec(name)             == <<"UnaryOpTT", "--", Id(name)>>
Push(name, e)         == <<"MethodCall", Id(name), "push", <<e>>>>
Del(e)                == <<"Delete", e>>
Printf(e)             == <<"Print", e>>
Bin(op, l, r)         == <<"BinaryOp", op, l, r>>
ForIn(v, e, body)     == <<"ForIn", v, e, body>>
While(c, body)        == <<"While", c, body>>
For(i, c, inc, body)  == <<"For", i, c, inc, body>>
If(c, body, els)      == <<"If", c, body, els>>
Return(e)             == <<"Return", e>>
Func(name, ps, body)  == <<"Function", name, ps, body>>
Call(name, args)      == <<"FunctionCall", name, args>>


\* Literals of the variants a source text can write
One    == Number(1)
Half   == Float(3, 2)
ArrLit == Array(<<Number(1), Number(2)>>)

Names == {"c", "x"}

\* let c: int & = 1, let c: array & = [1, 2], let c: int = 1 and, for x,
\* every declared type with an initializer of the same or another variant
LetStmts ==
    {Let("c", TRUE, "Int", One), Let("c", TRUE, "Array", ArrLit),
     Let("c", FALSE, "Int", One), Let("x", FALSE, "Int", Id("zz"))}
    \cup {Let("x", FALSE, ty, e) :
            ty \in {"Int", "String"}, e \in {Number(0), String("s")}}

\* right-hand sides: one of every variant an expression can evaluate to
\* (Printf yields Void, Return a ReturnValue, Id("c") a ConstValue when c is
\* const), and one that removes the target while it is evaluated
RhsExprs ==
    {Number(2), Half, String("t"), Boolean(TRUE), Regex("r"), Array(<<Number(3)>>),
     Printf(One), Return(One), Id("c"), Id("x"), Bin("+", Id("x"), One),
     Bin("<", Id("x"), One), Del(Id("x"))}

AssignStmts ==
    {Assign(Id("x"), e) : e \in RhsExprs}
    \cup {Assign(Id("c"), e) : e \in {Number(2), Id("c"), Id("x"), Del(Id("c"))}}
    \cup {Assign(Idx(Id("c"), Number(k)), Number(3)) : k \in {0, 2}}
    \cup {Assign(Idx(Id("c"), Number(0)), Del(Id("c")))}
    \cup {Assign(Idx(Id("x"), Number(0)), Number(3))}
    \cup {Assign(Idx(Id("c"), Id("x")), Number(3))}

\* reads a[i]: the index a literal or, for c, the value of x
IndexStmts ==
    {Idx(Id(n), Number(k)) : n \in Names, k \in {0, 1, MaxLen}}
    \cup {Idx(Id("c"), Id("x"))}

UnaryStmts == {Inc(n) : n \in Names} \cup {Dec(n) : n \in Names}

MethodStmts ==
    {Push(n, Number(3)) : n \in Names}
    \cup {<<"MethodCall", String("ab"), "chars", <<>>>>}

DeleteStmts == {Del(Id(n)) : n \in Names} \cup {Del(One)}

\* loop bodies: each prints the loop variable first
Bodies(v) ==
    {<<Printf(Id(v))>>,
     <<Printf(Id(v)), Assign(Id(v), Number(0))>>,
     <<Printf(Id(v)), Inc("x")>>}

\* bodies that print the item and push to, assign into or delete x
IterBodies ==
    {<<Printf(Id("c")), Push("x", Number(0))>>,
     <<Printf(Id("c")), Assign(Idx(Id("x"), Number(1)), Number(0))>>,
     <<Printf(Id("c")), Del(Id("x"))>>}

ForInStmts ==
    {ForIn("x", Number(n), b) : n \in -1..MaxInt, b \in Bodies("x")}
    \cup {ForIn("x", Id(n), <<Printf(Id("x"))>>) : n \in Names}
    \cup {ForIn("c", e, <<Printf(Id("c"))>>) : e \in {Number(2), ArrLit}}
    \cup {ForIn("c", Id("x"), b) : b \in IterBodies}

PrintStmts == {Printf(Id("x"))}

IfStmts ==
    {If(Id("x"), <<Inc("x")>>, els) : els \in {None, Some(<<Dec("x")>>)}}

WhileStmts ==
    {While(Bin("<", Id("x"), Number(2)), <<Inc("x")>>),
     While(Id("x"), <<Inc("x")>>)}

ForStmts ==
    {For(Assign(Id("x"), Number(0)), Bin("<", Id("x"), Number(2)), Inc("x"),
         <<Printf(Id("x"))>>)}

\* func leak(p) { let y: int = 1  x = "q"  c = 3  for (i in 2) { printf(i) }
\*                 let a: array = [1]  a.push(2)  del(p)
\*                 func inner() { return 1 }  return y }
leak ==
    Func("leak", <<"p">>,
         <<Let("y", FALSE, "Int", One),
           Assign(Id("x"), String("q")),
           Assign(Id("c"), Number(3)),
           ForIn("i", Number(2), <<Printf(Id("i"))>>),
           Let("a", FALSE, "Array", Array(<<One>>)),
           Push("a", Number(2)),
           Del(Id("p")),
           Func("inner", <<>>, <<Return(One)>>),
           Return(Id("y"))>>)

\* func leak_err(p) { x = "q"  func inner2() { return 1 }  zz }
leak_err ==
    Func("leak_err", <<"p">>,
         <<Assign(Id("x"), String("q")),
           Func("inner2", <<>>, <<Return(One)>>),
           Id("zz")>>)

\* func free(p) { return x }
free == Func("free", <<"p">>, <<Return(Id("x"))>>)
\* func free_c(p) { printf(p)  return c }
free_c == Func("free_c", <<"p">>, <<Printf(Id("p")), Return(Id("c"))>>)
\* func bound(p) { x = 1  return x }
bound == Func("bound", <<"p">>, <<Assign(Id("x"), One), Return(Id("x"))>>)
\* func param(x) { return x }
param == Func("param", <<"x">>, <<Return(Id("x"))>>)

\* func grow(p) { p.push(3)  p[0] = 3  return p }
grow ==
    Func("grow", <<"p">>,
         <<Push("p", Number(3)), Assign(Idx(Id("p"), Number(0)), Number(3)), Return(Id("p"))>>)

\* The functions whose body returns from inside a block: each prints 1 and
\* returns 1 where the first return is reached; what follows prints 8 or 9.
\* func r_top() { printf(1)  return 1  printf(9)  return 0 }
r_top ==
    Func("r_top", <<>>, <<Printf(One), Return(One), Printf(Number(9)), Return(Number(0))>>)
\* func r_if() { if (true) { printf(1)  return 1  printf(8) }  printf(9)  return 0 }
r_if ==
    Func("r_if", <<>>,
         <<If(Boolean(TRUE), <<Printf(One), Return(One), Printf(Number(8))>>, None),
           Printf(Number(9)), Return(Number(0))>>)
\* func r_forin() { for (i in 2) { printf(1)  return 1  printf(8) }  printf(9)  return 0 }
r_forin ==
    Func("r_forin", <<>>,
         <<ForIn("i", Number(2), <<Printf(One), Return(One), Printf(Number(8))>>),
           Printf(Number(9)), Return(Number(0))>>)
\* func r_while() { let n: int = 0
\*                  while (n < 1) { n++  printf(1)  return 1  printf(8) }
\*                  printf(9)  return 0 }
r_while ==
    Func("r_while", <<>>,
         <<Let("n", FALSE, "Int", Number(0)),
           While(Bin("<", Id("n"), One),
                 <<Inc("n"), Printf(One), Return(One), Printf(Number(8))>>),
           Printf(Number(9)), Return(Number(0))>>)
\* func r_for() { for (n = 0, n < 1, n++) { printf(1)  return 1  printf(8) }
\*                printf(9)  return 0 }
r_for ==
    Func("r_for", <<>>,
         <<For(Assign(Id("n"), Number(0)), Bin("<", Id("n"), One), Inc("n"),
               <<Printf(One), Return(One), Printf(Number(8))>>),
           Printf(Number(9)), Return(Number(0))>>)

ReturnFuncs == {"r_top", "r_if", "r_forin", "r_while", "r_for"}

\* one source text declaring all of them
Declarations ==
    <<leak, leak_err, free, free_c, bound, param, grow,
      r_top, r_if, r_forin, r_while, r_for>>

CallStmts ==
    {Call(f, args) :
        f \in {"leak", "leak_err", "free", "free_c", "bound", "param"},
        args \in {<<>>, <<One>>, <<Inc("x")>>}}
    \cup {Call("leak", <<Inc("x"), Id("zz")>>), Call("inner", <<>>), Call("grow", <<Id("x")>>)}
    \cup {Call(f, <<>>) : f \in ReturnFuncs}

----------------------------------------------------------------------------
(* The interpreter as a state machine: one Interpreter lives as long as    *)
(* the process (run_repl), and every input is one call of interpret on it. *)

RECURSIVE ValueInBounds(_)
ValueInBounds(v) ==
    CASE Tag(v) = "Number" -> v[2] \in -MaxInt..MaxInt
      [] Tag(v) = "Float"  -> Abs(v[2][1]) <= MaxInt * v[2][2]
      [] Tag(v) = "String" -> Len(v[2]) <= MaxLen
      [] Tag(v) = "Array"  ->
           Len(v[2]) <= MaxLen /\ \A k \in 1..Len(v[2]) : ValueInBounds(v[2][k])
      [] Tag(v) \in {"ConstValue", "ReturnValue"} -> ValueInBounds(v[2])
      [] OTHER -> TRUE

InBounds(map) == \A n \in DOMAIN map : ValueInBounds(map[n])

\* the state of the top-level interpreter, stdout empty before the call
Current == [variables |-> variables, functions |-> functions, out |-> <<>>]

\* one input: the interpreter's state and the outcome r of interpret(nodes)
\* are what the process shows afterwards
Run(nodes, r) ==
    /\ program = <<>>
    /\ r.val # Diverges
    /\ InBounds(r.variables)
    /\ variables' = r.variables
    /\ functions' = r.functions
    /\ program' = nodes
    /\ result' = r.val
    /\ out' = r.out

ExecLet ==
    \E n \in LetStmts :
        LET r == interpret(<<n>>, Current)
        IN  Run(<<n>>, r) /\ UNCHANGED lexVars

ExecAssign ==
    \E n \in AssignStmts :
        LET r == interpret(<<n>>, Current)
        IN  Run(<<n>>, r) /\ UNCHANGED lexVars

ExecUnaryOpTT ==
    \E n \in UnaryStmts :
        LET r == interpret(<<n>>, Current)
        IN  Run(<<n>>, r) /\ UNCHANGED lexVars

ExecMethodCall ==
    \E n \in MethodStmts :
        LET r == interpret(<<n>>, Current)
        IN  Run(<<n>>, r) /\ UNCHANGED lexVars

ExecIndex ==
    \E n \in IndexStmts :
        LET r == interpret(<<n>>, Current)
        IN  Run(<<n>>, r) /\ UNCHANGED lexVars

ExecDelete ==
    \E n \in DeleteStmts :
        LET r == interpret(<<n>>, Current)
        IN  Run(<<n>>, r) /\ UNCHANGED lexVars

ExecForIn ==
    \E n \in ForInStmts :
        LET r == interpret(<<n>>, Current)
        IN  Run(<<n>>, r) /\ UNCHANGED lexVars

ExecPrint ==
    \E n \in PrintStmts :
        LET r == interpret(<<n>>, Current)
        IN  Run(<<n>>, r) /\ UNCHANGED lexVars

ExecIf ==
    \E n \in IfStmts :
        LET r == interpret(<<n>>, Current)
        IN  Run(<<n>>, r) /\ UNCHANGED lexVars

ExecWhile ==
    \E n \in WhileStmts :
        LET r == interpret(<<n>>, Current)
        IN  Run(<<n>>, r) /\ UNCHANGED lexVars

ExecFor ==
    \E n \in ForStmts :
        LET r == interpret(<<n>>, Current)
        IN  Run(<<n>>, r) /\ UNCHANGED lexVars

ExecFunction ==
    LET r == interpret(Declarations, Current)
    IN  Run(Declarations, r) /\ UNCHANGED lexVars

ExecFunctionCall ==
    \E n \in CallStmts :
        LET r == interpret(<<n>>, Current)
        IN  Run(<<n>>, r) /\ UNCHANGED lexVars


\* run_repl: the loop comes round to read the next input
Prompt ==
    /\ program # <<>>
    /\ program' = <<>>
    /\ result' = Void
    /\ out' = <<>>
    /\ UNCHANGED <<variables, functions>>
    /\ UNCHANGED lexVars

InterpInit ==
    /\ variables = EmptyMap
    /\ functions = EmptyMap
    /\ program = <<>>
    /\ result = Void
    /\ out = <<>>

LexIdle ==
    /\ code = ""
    /\ remaining = ""
    /\ tokens = <<>>
    /\ errors = <<>>
    /\ lexer = "none"
    /\ lexpc = "idle"

Init == InterpInit /\ LexIdle

Next ==
    \/ ExecLet
    \/ ExecAssign
    \/ ExecUnaryOpTT
    \/ ExecMethodCall
    \/ ExecIndex
    \/ ExecDelete
    \/ ExecForIn
    \/ ExecPrint
    \/ ExecIf
    \/ ExecWhile
    \/ ExecFor
    \/ ExecFunction
    \/ ExecFunctionCall
    \/ Prompt

Spec == Init /\ [][Next]_vars

----------------------------------------------------------------------------
(* The two lexers.  "core/lexer.rs" is the one main.rs calls;              *)
(* "core/lexer/lexer.rs" is its rewrite, which returns a Result.  Both     *)
(* try the rules of tokens_spec in order on the text that remains and take *)
(* the first whose leftmost match starts at offset 0.                      *)

Live    == "core/lexer.rs"
Rewrite == "core/lexer/lexer.rs"

Digits == {"0", "1", "2", "3", "4", "5", "6", "7", "8", "9"}
Letters ==
    {"a", "b", "c", "d", "e", "f", "g", "h", "i", "j", "k", "l", "m", "n", "o",
     "p", "q", "r", "s", "t", "u", "v", "w", "x", "y", "z",
     "A", "B", "C", "D", "E", "F", "G", "H", "I", "J", "K", "L", "M", "N", "O",
     "P", "Q", "R", "S", "T", "U", "V", "W", "X", "Y", "Z", "_"}
\* \s
Spaces == {" ", "\t", "\n", "\r", "\f"}

\* &s[a-1..b], "" for an empty range
Slice(s, a, b) == IF a > b THEN "" ELSE SubSeq(s, a, b)
CharAt(s, i) == IF 1 <= i /\ i <= Len(s) THEN SubSeq(s, i, i) ELSE ""
IsPrefix(p, s) == Len(p) <= Len(s) /\ Slice(s, 1, Len(p)) = p

\* how many characters of s from offset i on are in set: [set]*
RECURSIVE Span(_, _, _)
Span(s, i, set) ==
    IF i <= Len(s) /\ CharAt(s, i) \in set THEN 1 + Span(s, i + 1, set) ELSE 0

\* how many characters of s from offset i on are outside set: [^set]*
RECURSIVE SpanNot(_, _, _)
SpanNot(s, i, set) ==
    IF i <= Len(s) /\ CharAt(s, i) \notin set THEN 1 + SpanNot(s, i + 1, set) ELSE 0

\* a|b|c at offset 0: the length of the first alternative that matches, or 0
RECURSIVE FirstAlt(_, _)
FirstAlt(alts, s) ==
    IF alts = <<>> THEN 0
    ELSE IF IsPrefix(Head(alts), s) THEN Len(Head(alts))
    ELSE FirstAlt(Tail(alts), s)

\* the alternatives of the OP rule, in the order of the pattern
OpAlts(lx) ==
    <<"?", "++", "--", "+", "-", "*", "/", "!=", "==", "<=", ">=", "<", ">", "&&", "&">>
    \o (IF lx = Rewrite THEN <<"%">> ELSE <<>>) \o <<"||">>

TypeAlts == <<"int", "float", "bool", "string", "array", "void">>

\* \d+\.\d+
float_len(s) ==
    LET d == Span(s, 1, Digits)
        f == Span(s, d + 2, Digits)
    IN  IF d > 0 /\ CharAt(s, d + 1) = "." /\ f > 0 THEN d + 1 + f ELSE 0

\* the body of a STRING from offset i: the offset of the closing quote, or 0.
\* [^"\\] takes one character, \\. takes a backslash and the character
\* after it (not a newline); the two $ alternatives match nothing the first
\* two do not reach first.
RECURSIVE string_close(_, _)
string_close(s, i) ==
    IF i > Len(s) THEN 0
    ELSE IF CharAt(s, i) = "\"" THEN i
    ELSE IF CharAt(s, i) = "\\"
         THEN IF i + 1 <= Len(s) /\ CharAt(s, i + 1) # "\n"
              THEN string_close(s, i + 2) ELSE 0
    ELSE string_close(s, i + 1)

string_len(s) == IF IsPrefix("\"", s) THEN string_close(s, 2) ELSE 0

\* the last backslash of s in offsets lo..hi, or 0
RECURSIVE last_backslash(_, _, _)
last_backslash(s, lo, hi) ==
    IF hi < lo THEN 0
    ELSE IF CharAt(s, hi) = "\\" THEN hi
    ELSE last_backslash(s, lo, hi - 1)

\* \\[^/]+\\  (greedy: up to the last backslash before the first slash)
regex_len(s) ==
    IF IsPrefix("\\", s)
    THEN last_backslash(s, 3, 1 + SpanNot(s, 2, {"/"}))
    ELSE 0

\* [a-zA-Z_][a-zA-Z0-9_]*
id_len(s) ==
    IF Len(s) > 0 /\ CharAt(s, 1) \in Letters
    THEN 1 + Span(s, 2, Letters \cup Digits) ELSE 0

\* the names of tokens_spec, in order
tokens_spec(lx) ==
    <<"WHITESPACE", "NEWLINE", "COMMENT", "ARROW", "OP", "ASSIGN", "LPAREN", "RPAREN",
      "LBRACE", "RBRACE", "LBRACKET", "RBRACKET", "COLON", "COMMA", "DOT", "TYPES",
      "FLOAT", IF lx = Rewrite THEN "NUMBER" ELSE "NUM", "STRING", "REGEX", "BOOL", "ID">>

\* regex.find(remaining) with mat.start() == 0: the length of the match of
\* the rule at offset 0, 0 when it has none there
match_end(lx, name, s) ==
    CASE name = "WHITESPACE" -> Span(s, 1, Spaces)
      [] name = "NEWLINE"    -> Span(s, 1, {"\n"})
      [] name = "COMMENT"    -> IF IsPrefix("//", s) THEN 2 + SpanNot(s, 3, {"\n"}) ELSE 0
      [] name = "ARROW"      -> FirstAlt(<<"->">>, s)
      [] name = "OP"         -> FirstAlt(OpAlts(lx), s)
      [] name = "ASSIGN"     -> FirstAlt(<<"=">>, s)
      [] name = "LPAREN"     -> FirstAlt(<<"(">>, s)
      [] name = "RPAREN"     -> FirstAlt(<<")">>, s)
      [] name = "LBRACE"     -> FirstAlt(<<"{">>, s)
      [] name = "RBRACE"     -> FirstAlt(<<"}">>, s)
      [] name = "LBRACKET"   -> FirstAlt(<<"[">>, s)
      [] name = "RBRACKET"   -> FirstAlt(<<"]">>, s)
      [] name = "COLON"      -> FirstAlt(<<":">>, s)
      [] name = "COMMA"      -> FirstAlt(<<",">>, s)
      [] name = "DOT"        -> FirstAlt(<<".">>, s)
      [] name = "TYPES"      -> FirstAlt(TypeAlts, s)
      [] name = "FLOAT"      -> float_len(s)
      [] name \in {"NUM", "NUMBER"} -> Span(s, 1, Digits)
      [] name = "STRING"     -> string_len(s)
      [] name = "REGEX"      -> regex_len(s)
      [] name = "BOOL"       -> FirstAlt(<<"true", "false">>, s)
      [] name = "ID"         -> id_len(s)

\* the for loop over tokens_spec: the first rule that matches, or "" 
RECURSIVE first_rule(_, _, _)
first_rule(lx, rules, s) ==
    IF rules = <<>> THEN ""
    ELSE IF match_end(lx, Head(rules), s) > 0 THEN Head(rules)
    ELSE first_rule(lx, Tail(rules), s)

keywords(lx) ==
    {IF lx = Rewrite THEN "print" ELSE "printf", "let", "import", "if", "else",
     "while", "for", "in", "random", "func", "return",
     "del", "input", "to", "type", "sleep", "compile_all", "compile"}

Skipped == {"WHITESPACE", "COMMENT", "NEWLINE"}

\* the (token_type, processed_value) pushed for a match of rule name
token(lx, name, token_value) ==
    <<IF name = "ID" /\ token_value \in keywords(lx) THEN "KEYWORD" ELSE name,
      IF name = "REGEX" THEN Slice(token_value, 2, Len(token_value) - 1)
      ELSE token_value>>

\* char.len_utf8() of the characters the model writes (all ASCII)
Mut_len_utf8(char) == 2
len_utf8(char) == 1

UnexpectedCharacter(char, pos) == <<"UnexpectedCharacter", char, pos>>

----------------------------------------------------------------------------
(* lex as a state machine: one step per iteration of the while loop.       *)

\* The characters of the source texts: letters that spell a keyword ("in"),
\* a type ("int") and identifiers, a digit, an operator, a blank, a quote
\* and a character no rule matches.
Alphabet == {"i", "n", "t", "1", "+", " ", "\"", "@"}

RECURSIVE Texts(_)
Texts(n) ==
    IF n = 0 THEN {""}
    ELSE LET shorter == Texts(n - 1)
         IN  shorter \cup {s \o c : s \in shorter, c \in Alphabet}

\* the characters of names, and the texts of up to n of them: names that
\* are, begin with, end with or hold a reserved word (int, in)
NameChars == {"i", "n", "t", "1"}

RECURSIVE Words(_)
Words(n) ==
    IF n = 0 THEN {""}
    ELSE LET shorter == Words(n - 1)
         IN  shorter \cup {s \o c : s \in shorter, c \in NameChars}

\* lex(code) is called: the locals are initialised
LexCall ==
    /\ lexpc = "idle"
    /\ \E lx \in {Live, Rewrite}, text \in Texts(MaxCode) \cup Words(MaxWord) :
        /\ lexer' = lx
        /\ code' = text
        /\ remaining' = text
    /\ tokens' = <<>>
    /\ errors' = <<>>
    /\ lexpc' = "scan"
    /\ UNCHANGED interpVars

\* an iteration in which a rule matches at offset 0
LexMatch ==
    /\ lexpc = "scan"
    /\ remaining # ""
    /\ LET name == first_rule(lexer, tokens_spec(lexer), remaining)
           end == match_end(lexer, name, remaining)
       IN  /\ name # ""
           /\ tokens' = IF name \in Skipped THEN tokens
                        ELSE Append(tokens, token(lexer, name, Slice(remaining, 1, end)))
           /\ remaining' = Slice(remaining, end + 1, Len(remaining))
    /\ UNCHANGED <<code, errors, lexer, lexpc>>
    /\ UNCHANGED interpVars

\* core/lexer.rs, no rule matched: panic!("Unexpected character at: {}", remaining)
LexPanic ==
    /\ lexpc = "scan"
    /\ remaining # ""
    /\ lexer = Live
    /\ first_rule(lexer, tokens_spec(lexer), remaining) = ""
    /\ lexpc' = "panicked"
    /\ UNCHANGED <<code, remaining, tokens, errors, lexer>>
    /\ UNCHANGED interpVars

\* core/lexer/lexer.rs, no rule matched: push the diagnostic, skip the character
LexUnexpected ==
    /\ lexpc = "scan"
    /\ remaining # ""
    /\ lexer = Rewrite
    /\ first_rule(lexer, tokens_spec(lexer), remaining) = ""
    /\ LET char == CharAt(remaining, 1)
           char_len == len_utf8(char)
       IN  /\ errors' = Append(errors, UnexpectedCharacter(char, char_len))
           /\ remaining' = Slice(remaining, char_len + 1, Len(remaining))
    /\ UNCHANGED <<code, tokens, lexer, lexpc>>
    /\ UNCHANGED interpVars

\* remaining.is_empty(): the loop ends and lex returns
LexReturn ==
    /\ lexpc = "scan"
    /\ remaining = ""
    /\ lexpc' = "returned"
    /\ UNCHANGED <<code, remaining, tokens, errors, lexer>>
    /\ UNCHANGED interpVars

\* what lex returned (lexpc = "returned"): Vec of tokens from core/lexer.rs,
\* Result<Vec of tokens, Vec<LexerError>> from the rewrite
LexResult ==
    IF lexer = Live THEN tokens
    ELSE IF errors # <<>> THEN <<"Err", errors>> ELSE <<"Ok", tokens>>

LexNext ==
    \/ LexCall
    \/ LexMatch
    \/ LexPanic
    \/ LexUnexpected
    \/ LexReturn

LexSpec == Init /\ [][LexNext]_vars

----------------------------------------------------------------------------
(* Properties.  An input is run by a step from program = <<>> to           *)
(* program' # <<>>; the unprimed variables are the interpreter before the  *)
(* input, the primed ones the interpreter, the value returned and stdout   *)
(* after it.                                                               *)

Ran == program = <<>> /\ program' # <<>>
RanOne == Ran /\ Len(program') = 1

IsConst(map, name) == name \in DOMAIN map /\ Tag(map[name]) = "ConstValue"
SameBinding(map, old, name) == name \in DOMAIN map /\ map[name] = old[name]

\* n assigns to c, assigns to an element of c, or is c++ / c--
MutatesName(n, c) ==
    \/ Kind(n) = "Assign" /\ Kind(n[2]) = "Identifier" /\ n[2][2] = c
    \/ Kind(n) = "Assign" /\ Kind(n[2]) = "Index" /\ n[2][2] = Id(c)
    \/ Kind(n) = "UnaryOpTT" /\ n[3] = Id(c)

\* the interpreter once the operands of n (the right-hand side, then the
\* index) have been evaluated
AfterOperands(n) ==
    IF Kind(n) # "Assign" THEN Ok(Void, Current)
    ELSE LET r == interpret_single(n[3], Current)
         IN  IF IsErr(r.val) \/ Kind(n[2]) # "Index" THEN r
             ELSE interpret_single(n[2][3], r)

\* C1, as the spec states it: when c is bound to a ConstValue, each of
\* c = e, c[i] = e, c++ and c-- returns an error and leaves c bound to the
\* same ConstValue.
C1_ConstMutationFails ==
    [][\A c \in Names :
          (RanOne /\ IsConst(variables, c) /\ MutatesName(program'[1], c))
          => (IsErr(result') /\ SameBinding(variables', variables, c))]_vars

\* C1, amended: when c is bound to a ConstValue, c++ and c-- return an error
\* and leave c bound to the same ConstValue, and so do c = e and c[i] = e
\* whenever c is still bound to that ConstValue once e and i have been
\* evaluated (e may itself del(c)).
C1_ConstMutationFailsUnlessOperandRebinds ==
    [][\A c \in Names :
          (/\ RanOne
           /\ IsConst(variables, c)
           /\ MutatesName(program'[1], c)
           /\ SameBinding(AfterOperands(program'[1]).variables, variables, c))
          => (IsErr(result') /\ SameBinding(variables', variables, c))]_vars

\* c = 2 was run on a const c: it failed and c is still the constant
C1_Witness ==
    /\ program = <<Assign(Id("c"), Number(2))>>
    /\ result = Err("Cannot reassign constant c")
    /\ IsConst(variables, "c")

\* C2: once c is bound to a ConstValue, a later let of c, a push on c and a
\* for-in loop whose loop variable is c (none of which is a del) leave c
\* bound to the same ConstValue.
C2_ConstBindingKept ==
    [][\A c \in Names :
          (/\ Ran
           /\ IsConst(variables, c)
           /\ program' \in {<<n>> : n \in LetStmts \cup MethodStmts \cup ForInStmts})
          => SameBinding(variables', variables, c)]_vars

\* x holds a Number and the input is x = e
AssignsToInt ==
    /\ RanOne
    /\ "x" \in DOMAIN variables
    /\ Tag(variables["x"]) = "Number"
    /\ Kind(program'[1]) = "Assign"
    /\ program'[1][2] = Id("x")

\* what C3 asks of x = e when e evaluated to value
TypeStable(value) ==
    IF Tag(value) = "Number"
    THEN /\ result' = Void
         /\ "x" \in DOMAIN variables'
         /\ variables'["x"] = value
    ELSE /\ result' = Err("Type mismatch for variable x")
         /\ SameBinding(variables', variables, "x")

\* C3, as the spec states it: when x holds a Number, x = e fails with a type
\* mismatch and leaves x as it was if e evaluates to anything but a Number,
\* and succeeds and replaces the value if e evaluates to a Number.
C3_TypeStability ==
    [][AssignsToInt =>
          LET r == interpret_single(program'[1][3], Current)
          IN  ~IsErr(r.val) => TypeStable(r.val)]_vars

\* C3, amended: the same, for every e whose evaluation leaves x bound to its
\* Number (x = del(x) evaluates del first and then binds x to Void).
C3_TypeStabilityUnlessOperandRebinds ==
    [][AssignsToInt =>
          LET r == interpret_single(program'[1][3], Current)
          IN  (~IsErr(r.val) /\ SameBinding(r.variables, variables, "x"))
              => TypeStable(r.val)]_vars

\* x = 1.5 was run on a Number x: it failed and x is still a Number
C3_Witness ==
    /\ program = <<Assign(Id("x"), Half)>>
    /\ result = Err("Type mismatch for variable x")
    /\ "x" \in DOMAIN variables
    /\ Tag(variables["x"]) = "Number"

\* the input calls a declared function with as many arguments as it has
\* parameters
Calls(names) ==
    /\ RanOne
    /\ Kind(program'[1]) = "FunctionCall"
    /\ program'[1][2] \in names \cap DOMAIN functions
    /\ Len(program'[1][3]) = Len(functions[program'[1][2]][1])

\* C4: after a FunctionCall, with a value or an error, the caller's
\* variables are what they were once the arguments had been evaluated, and
\* its function table is what it was before the call.
C4_CallLeavesCallerAlone ==
    [][Calls(DOMAIN functions) =>
          /\ variables' = eval_list(program'[1][3], Current, <<>>).variables
          /\ functions' = functions]_vars

\* leak(1) ran its lets, assignments, loop, push, del and declaration and
\* returned; the caller, which has an x, sees none of it
C4_Witness ==
    /\ program = <<Call("leak", <<One>>)>>
    /\ result = Number(1)
    /\ out = <<Number(1), Number(2)>>
    /\ "x" \in DOMAIN variables
    /\ variables["x"] # String("q")
    /\ DOMAIN variables \cap {"y", "a", "i", "p"} = {}
    /\ "inner" \notin DOMAIN functions

\* C5: a function body that reads a name which is neither a parameter nor
\* bound during the call (free reads x, free_c reads c) fails with
\* "Undefined variable", whatever the caller has bound.
C5_NoCapture ==
    [][(/\ Calls({"free", "free_c"})
        /\ ~IsErr(eval_list(program'[1][3], Current, <<>>).val))
       => result' = Err("Undefined variable: "
                        \o (IF program'[1][2] = "free" THEN "x" ELSE "c"))]_vars

\* free(1) was called by a caller that has an x, and failed
C5_Witness ==
    /\ program = <<Call("free", <<One>>)>>
    /\ result = Err("Undefined variable: x")
    /\ "x" \in DOMAIN variables

C7_ForRange ==
    [][(/\ RanOne
        /\ Kind(program'[1]) = "ForIn"
        /\ Kind(program'[1][3]) = "Number")
       => LET N == program'[1][3][2]
          IN  /\ result' = Void
              /\ Len(out') = (IF N > 0 THEN N ELSE 0)
              /\ \A i \in 1..Len(out') : out'[i] = <<"Number", i>>]_vars

\* for (x in 3) { printf(x) } ran three times; for (x in 0) and (x in -1)
\* are covered by the formula's N <= 0
C7_Witness ==
    /\ program = <<ForIn("x", Number(3), <<Printf(Id("x"))>>)>>
    /\ result = Void
    /\ out = <<Number(1), Number(2), Number(3)>>

\* C8: every iteration of the lexer's loop shortens the remaining input,
\* the lexer never aborts, and what it returns is either tokens or a
\* non-empty list of UnexpectedCharacter diagnostics.
C8_LexerTotal ==
    [][(lexpc = "scan") =>
          /\ lexpc' # "panicked"
          /\ lexpc' = "scan" => Len(remaining') < Len(remaining)
          /\ lexpc' = "returned" => (errors' = <<>> \/ lexer' = Rewrite)]_vars

\* the type a declared Type asks of a value, by variant
Corresponds(tag, type) ==
    <<tag, type>> \in {<<"Number", "Int">>, <<"Float", "Float">>, <<"Boolean", "Bool">>,
                       <<"String", "String">>, <<"Regex", "String">>, <<"Array", "Array">>,
                       <<"MatchValue", "Array">>, <<"MatchArray", "Array">>}

\* the input is a let whose initializer evaluates to a value
RanLet ==
    /\ RanOne
    /\ Kind(program'[1]) = "Let"
    /\ ~IsErr(interpret_single(program'[1][5], Current).val)

C10_DeclaredTypeChecked ==
    [][(/\ RanLet
        /\ program'[1][4] # "None"
        /\ ~Corresponds(Tag(interpret_single(program'[1][5], Current).val),
                        program'[1][4]))
       => (IsErr(result') /\ variables' = variables)]_vars

----------------------------------------------------------------------------
(* eval_binop as a function of its arguments: program holds the BinaryOp   *)
(* whose operands are already values, result what eval_binop returns for   *)
(* it (Void: not called yet).                                              *)

\* the operators num_op, bool_op, str_op and array_op match on
Operators == {"+", "-", "*", "/", "%", "==", "!=", "<", ">", "<=", ">=", "&&", "||"}

\* operands: zero and non-zero of both numeric variants, and one value of
\* each of the other variants eval_binop matches on
Operands ==
    {Number(0), Number(2), Float(0, 1), Half, Boolean(TRUE), String("s"), ArrLit}

BinopInit ==
    /\ variables = EmptyMap
    /\ functions = EmptyMap
    /\ program \in {<<Bin(op, l, r)>> : op \in Operators, l \in Operands, r \in Operands}
    /\ result = Void
    /\ out = <<>>
    /\ LexIdle

\* self.eval_binop(op, left_val, right_val)
BinopCall ==
    /\ result = Void
    /\ result' = eval_binop(program[1][2], program[1][3], program[1][4])
    /\ UNCHANGED <<variables, functions, program, out>>
    /\ UNCHANGED lexVars

BinopSpec == BinopInit /\ [][BinopCall]_vars

IsNumeric(v) == Tag(v) \in {"Number", "Float"}
IsZero(v) == v \in {Number(0), Float(0, 1)}

C12_NumberArithmeticStaysNumber ==
    [][(/\ RanOne
        /\ program'[1] = Assign(Id("x"), Bin("+", Id("x"), One))
        /\ "x" \in DOMAIN variables
        /\ Tag(variables["x"]) = "Number")
       => (/\ result' = Void
           /\ "x" \in DOMAIN variables'
           /\ variables'["x"] = <<"Number", variables["x"][2] + 1>>)]_vars

----------------------------------------------------------------------------
(* core/parser.rs.  The parser is the pair (tokens, pos); a parsing        *)
(* function takes the token vector ts and pos (from 1 here, from 0 in the  *)
(* source) and yields POk(node, pos after it), PErr(msg) for the Err(msg)  *)
(* that `?` hands up, or Panic where the source unwraps a None.  Messages  *)
(* that quote the token found are cut before the quotation.  Of the        *)
(* KEYWORD arm of parse_factor printf, del and for are modelled; the other *)
(* keywords that open a statement, and the arms for BOOL, STRING and array *)
(* literals, are not: the token vectors below hold none of these tokens.   *)

POk(node, pos) == <<"ok", node, pos>>
PErr(msg)      == <<"err", msg>>
Panic          == <<"panic">>

\* self.current_token(): the type and the value of tokens.get(pos)
TokType(ts, pos) == IF pos <= Len(ts) THEN ts[pos][1] ELSE "None"
TokVal(ts, pos)  == IF pos <= Len(ts) THEN ts[pos][2] ELSE ""

consume(ts, pos, expected_type) ==
    IF TokType(ts, pos) = expected_type
    THEN POk(TokVal(ts, pos), pos + 1)
    ELSE PErr("Expected " \o expected_type)

DigitVal(c) == CHOOSE d \in 0..9 : Digit(d) = c

\* num_str.parse::<i64>() of a string of digits
RECURSIVE parse_i64(_)
parse_i64(num_str) ==
    IF Len(num_str) = 1 THEN DigitVal(num_str)
    ELSE parse_i64(Slice(num_str, 1, Len(num_str) - 1)) * 10
         + DigitVal(CharAt(num_str, Len(num_str)))

RECURSIVE Pow10(_)
Pow10(n) == IF n = 0 THEN 1 ELSE 10 * Pow10(n - 1)

\* float_str.parse::<f64>() of digits, a point and digits
parse_f64(float_str) ==
    LET point == 1 + Span(float_str, 1, Digits)
        fraction == Slice(float_str, point + 1, Len(float_str))
    IN  Frac(parse_i64(Slice(float_str, 1, point - 1) \o fraction), Pow10(Len(fraction)))

\* `let x = f()?; ...`: an Err (or the abort) of f ends the caller, an Ok
\* hands the node and the position after it to the rest of the caller
Try(r, rest(_, _)) == IF r[1] # "ok" THEN r ELSE rest(r[2], r[3])

\* self.consume(expected_type)?, the value dropped
Expect(ts, pos, expected_type, r) ==
    IF consume(ts, pos, expected_type)[1] # "ok" THEN consume(ts, pos, expected_type) ELSE r

\* the operators each level's loop goes on at
expr_ops       == {"+", "-"}
Mut_term_ops   == {"*", "/", "+"}
term_ops       == {"*", "/"}
comparison_ops == {"==", "!=", "<", ">", "<=", ">=", "&&", "||"}

RECURSIVE parse_expr(_, _), expr_loop(_, _, _), parse_term(_, _)
RECURSIVE term_loop(_, _, _), parse_comparison(_, _), comparison_loop(_, _, _)
RECURSIVE parse_factor(_, _), suffix_loop(_, _, _), call_args(_, _, _)
RECURSIVE method_args(_, _, _), block_loop(_, _, _)

parse_expr(ts, pos) ==
    Try(parse_term(ts, pos), LAMBDA node, p : expr_loop(ts, node, p))

expr_loop(ts, node, pos) ==
    IF TokType(ts, pos) = "OP" /\ TokVal(ts, pos) \in expr_ops
    THEN Try(parse_term(ts, pos + 1),
             LAMBDA right, p : expr_loop(ts, Bin(TokVal(ts, pos), node, right), p))
    ELSE IF TokType(ts, pos) = "OP" /\ TokVal(ts, pos) \in {"++", "--"}
    THEN expr_loop(ts, <<"UnaryOpTT", TokVal(ts, pos), node>>, pos + 1)
    ELSE IF TokType(ts, pos) = "ASSIGN"
    THEN Try(parse_expr(ts, pos + 1),
             LAMBDA right, p : expr_loop(ts, Assign(node, right), p))
    ELSE POk(node, pos)

parse_term(ts, pos) ==
    Try(parse_comparison(ts, pos), LAMBDA node, p : term_loop(ts, node, p))

term_loop(ts, node, pos) ==
    IF TokType(ts, pos) = "OP" /\ TokVal(ts, pos) \in term_ops
    THEN Try(parse_comparison(ts, pos + 1),
             LAMBDA right, p : term_loop(ts, Bin(TokVal(ts, pos), node, right), p))
    ELSE POk(node, pos)

parse_comparison(ts, pos) ==
    Try(parse_factor(ts, pos), LAMBDA node, p : comparison_loop(ts, node, p))

comparison_loop(ts, node, pos) ==
    IF TokType(ts, pos) = "OP" /\ TokVal(ts, pos) \in comparison_ops
    THEN Try(parse_factor(ts, pos + 1),
             LAMBDA right, p : comparison_loop(ts, Bin(TokVal(ts, pos), node, right), p))
    ELSE POk(node, pos)

\* the while of the function-call arm: arguments up to the RPAREN or the
\* end of the tokens, the comma after each optional
call_args(ts, args, pos) ==
    IF TokType(ts, pos) \in {"None", "RPAREN"} THEN POk(args, pos)
    ELSE Try(parse_expr(ts, pos),
             LAMBDA arg, p : call_args(ts, Append(args, arg),
                                       IF TokType(ts, p) = "COMMA" THEN p + 1 ELSE p))

\* `while self.current_token().unwrap().0 == "COMMA"` of the method-call
\* suffix, pos after an argument
method_args(ts, args, pos) ==
    IF TokType(ts, pos) = "None" THEN Panic
    ELSE IF TokType(ts, pos) # "COMMA" THEN POk(args, pos)
    ELSE Try(parse_expr(ts, pos + 1),
             LAMBDA arg, p : method_args(ts, Append(args, arg), p))

\* the ID arm of parse_factor, pos after the ID (the vectors hold no `?`:
\* the conditional that a `?` after the identifier or the call opens is
\* not modelled)
factor_ID(ts, id, pos) ==
    IF TokType(ts, pos) = "LPAREN"
    THEN Try(call_args(ts, <<>>, pos + 1),
             LAMBDA args, p : Expect(ts, p, "RPAREN", POk(Call(id, args), p + 1)))
    ELSE POk(Id(id), pos)

\* `if self.current_token().unwrap().0 != "RPAREN"` of the method-call
\* suffix, pos after the LPAREN
first_method_arg(ts, pos) ==
    IF TokType(ts, pos) = "None" THEN Panic
    ELSE IF TokType(ts, pos) = "RPAREN" THEN POk(<<>>, pos)
    ELSE Try(parse_expr(ts, pos), LAMBDA arg, p : method_args(ts, <<arg>>, p))

\* the loop that ends parse_factor: index and method-call suffixes
suffix_loop(ts, node, pos) ==
    IF TokType(ts, pos) = "LBRACKET"
    THEN Try(parse_expr(ts, pos + 1),
             LAMBDA index, p :
                 Expect(ts, p, "RBRACKET", suffix_loop(ts, Idx(node, index), p + 1)))
    ELSE IF TokType(ts, pos) = "DOT"
    THEN Expect(ts, pos + 1, "ID",
         Expect(ts, pos + 2, "LPAREN",
             Try(first_method_arg(ts, pos + 3),
                 LAMBDA args, p :
                     Expect(ts, p, "RPAREN",
                         suffix_loop(ts, <<"MethodCall", node, TokVal(ts, pos + 1), args>>,
                                     p + 1)))))
    ELSE POk(node, pos)

factor_LPAREN(ts, pos) ==
    Try(parse_expr(ts, pos), LAMBDA expr, p : Expect(ts, p, "RPAREN", POk(expr, p + 1)))

\* the while of parse_block, then its consume("RBRACE")
block_loop(ts, nodes, pos) ==
    IF TokType(ts, pos) \in {"None", "RBRACE"}
    THEN Expect(ts, pos, "RBRACE", POk(nodes, pos + 1))
    ELSE Try(parse_expr(ts, pos), LAMBDA node, p : block_loop(ts, Append(nodes, node), p))

parse_block(ts, pos) ==
    Expect(ts, pos, "LBRACE", block_loop(ts, <<>>, pos + 1))

\* parse_for from `let init`: three expressions with a comma between them
\* from pos, the RPAREN and the body
for_header(ts, pos) ==
    Try(parse_expr(ts, pos), LAMBDA init, p1 :
        Expect(ts, p1, "COMMA",
            Try(parse_expr(ts, p1 + 1), LAMBDA condition, p2 :
                Expect(ts, p2, "COMMA",
                    Try(parse_expr(ts, p2 + 1), LAMBDA increment, p3 :
                        Expect(ts, p3, "RPAREN",
                            Try(parse_block(ts, p3 + 1), LAMBDA body, p4 :
                                POk(For(init, condition, increment, body), p4))))))))

\* the return inside `if keyword == "in"`, pos after the keyword
for_in(ts, id, pos) ==
    Try(parse_expr(ts, pos), LAMBDA iterable, p1 :
        Expect(ts, p1, "RPAREN",
            Try(parse_block(ts, p1 + 1), LAMBDA body, p2 :
                POk(ForIn(id, iterable, body), p2))))

\* where `self.pos -= 1` leaves pos when the token after the LPAREN is an
\* ID, pos at that ID: the ID is consumed, a KEYWORD after it is consumed
\* too, and one step is taken back
after_look_ahead(ts, pos) ==
    IF TokType(ts, pos + 1) = "KEYWORD" THEN pos + 1 ELSE pos

\* parse_for, pos after the keyword
parse_for(ts, pos) ==
    Expect(ts, pos, "LPAREN",
        IF TokType(ts, pos + 1) # "ID" THEN for_header(ts, pos + 1)
        ELSE IF TokType(ts, pos + 2) = "KEYWORD" /\ TokVal(ts, pos + 2) = "in"
        THEN for_in(ts, TokVal(ts, pos + 1), pos + 3)
        ELSE for_header(ts, after_look_ahead(ts, pos + 1)))

\* the printf and the del arm, pos after the keyword
parse_printf(ts, pos) ==
    Expect(ts, pos, "LPAREN",
        Try(parse_expr(ts, pos + 1), LAMBDA expr, p :
            Expect(ts, p, "RPAREN", POk(Printf(expr), p + 1))))

parse_delete(ts, pos) ==
    Expect(ts, pos, "LPAREN",
        Try(parse_expr(ts, pos + 1), LAMBDA expr, p :
            Expect(ts, p, "RPAREN", POk(Del(expr), p + 1))))

\* the KEYWORD arm of parse_factor, pos after the keyword
factor_KEYWORD(ts, keyword, pos) ==
    CASE keyword = "printf" -> parse_printf(ts, pos)
      [] keyword = "for" -> parse_for(ts, pos)
      [] keyword = "del" -> parse_delete(ts, pos)
      [] OTHER -> PErr("Unexpected keyword: " \o keyword)

parse_factor(ts, pos) ==
    Try(CASE TokType(ts, pos) = "None" -> PErr("Unexpected end of input")
          [] TokType(ts, pos) = "KEYWORD" -> factor_KEYWORD(ts, TokVal(ts, pos), pos + 1)
          [] TokType(ts, pos) = "LPAREN" -> factor_LPAREN(ts, pos + 1)
          [] TokType(ts, pos) = "NUM" -> POk(Number(parse_i64(TokVal(ts, pos))), pos + 1)
          [] TokType(ts, pos) = "FLOAT" ->
                POk(<<"Float", parse_f64(TokVal(ts, pos))>>, pos + 1)
          [] TokType(ts, pos) = "ID" -> factor_ID(ts, TokVal(ts, pos), pos + 1)
          [] OTHER -> PErr("Unexpected token"),
        LAMBDA node, p : suffix_loop(ts, node, p))

\* the while of Parser::parse
RECURSIVE parse_loop(_, _, _)
parse_loop(ts, nodes, pos) ==
    IF pos > Len(ts) THEN POk(nodes, pos)
    ELSE Try(parse_expr(ts, pos), LAMBDA node, p : parse_loop(ts, Append(nodes, node), p))

\* Parser::new(tokens).parse()
parse(ts) == parse_loop(ts, <<>>, 1)

\* Token vectors.  Any vector of up to MaxTokens of the tokens a call is
\* written with, and the operand/operator vectors a . b . c ... of up to
\* MaxOps operators, whole or cut after an operator.
MaxTokens == 5
MaxOps == 3

CallTokens ==
    {<<"ID", "a">>, <<"NUM", "1">>, <<"DOT", ".">>, <<"LPAREN", "(">>,
     <<"RPAREN", ")">>, <<"COMMA", ",">>}

TokenVectors == UNION {[1..n -> CallTokens] : n \in 0..MaxTokens}

BinaryOps == {"+", "-", "*", "/", "<", "==", "&&"}

\* the i-th operand
Operand(i) == <<"ID", SubSeq("abcdefgh", i, i)>>

RECURSIVE ExprVectors(_)
ExprVectors(n) ==
    IF n = 0 THEN {<<Operand(1)>>}
    ELSE LET shorter == ExprVectors(n - 1)
             cut == {Append(ts, <<"OP", op>>) :
                         ts \in {x \in shorter : Len(x) = 2 * n - 1}, op \in BinaryOps}
         IN  shorter \cup cut \cup {Append(ts, Operand(n + 1)) : ts \in cut}

\* for statements: any header of up to MaxHeader tokens after `for (`,
\* and whole statements with each kind of header, cut anywhere
MaxHeader == 3

HeaderTokens ==
    {<<"ID", "a">>, <<"NUM", "1">>, <<"KEYWORD", "in">>, <<"KEYWORD", "del">>,
     <<"COMMA", ",">>, <<"RPAREN", ")">>}

ForOpen == <<(<<"KEYWORD", "for">>), (<<"LPAREN", "(">>)>>

ForClose ==
    <<(<<"COMMA", ",">>), (<<"ID", "b">>), (<<"COMMA", ",">>), (<<"ID", "c">>),
      (<<"RPAREN", ")">>), (<<"LBRACE", "{">>), (<<"ID", "d">>), (<<"RBRACE", "}">>)>>

Leads ==
    {<<(<<"ID", "a">>)>>, <<(<<"NUM", "1">>)>>,
     <<(<<"ID", "a">>), (<<"OP", "+">>), (<<"NUM", "1">>)>>,
     <<(<<"ID", "a">>), (<<"KEYWORD", "del">>), (<<"LPAREN", "(">>), (<<"ID", "a">>),
       (<<"RPAREN", ")">>)>>,
     <<(<<"ID", "a">>), (<<"KEYWORD", "printf">>), (<<"LPAREN", "(">>), (<<"NUM", "1">>),
       (<<"RPAREN", ")">>)>>,
     <<(<<"KEYWORD", "del">>), (<<"LPAREN", "(">>), (<<"ID", "a">>), (<<"RPAREN", ")">>)>>}

ForInStatement ==
    ForOpen \o <<(<<"ID", "a">>), (<<"KEYWORD", "in">>), (<<"ID", "b">>),
                 (<<"RPAREN", ")">>), (<<"LBRACE", "{">>), (<<"ID", "d">>),
                 (<<"RBRACE", "}">>)>>

Cuts(ts) == {SubSeq(ts, 1, n) : n \in 2..Len(ts)}

ForVectors ==
    {ForOpen \o h : h \in UNION {[1..n -> HeaderTokens] : n \in 0..MaxHeader}}
    \cup UNION {Cuts(ForOpen \o lead \o ForClose) : lead \in Leads}
    \cup Cuts(ForInStatement)

\* assignments and `++` / `--`: any vector of up to MaxAssign of the tokens
\* they are written with
MaxAssign == 3

AssignTokens ==
    {<<"ID", "a">>, <<"NUM", "1">>, <<"ASSIGN", "=">>, <<"OP", "++">>, <<"OP", "--">>,
     <<"OP", "+">>, <<"LBRACKET", "[">>, <<"RBRACKET", "]">>}

AssignVectors ==
    UNION {[1..n -> AssignTokens] : n \in 1..MaxAssign}
    \cup {<<(<<"ID", "a">>), (<<"LBRACKET", "[">>), (<<"NUM", "1">>), (<<"RBRACKET", "]">>)>>
          \o tail :
          tail \in {<<(<<"ASSIGN", "=">>), (<<"NUM", "1">>)>>, <<(<<"OP", "++">>)>>}}

ParseInit ==
    /\ variables = EmptyMap
    /\ functions = EmptyMap
    /\ program = <<>>
    /\ result = Void
    /\ out = <<>>
    /\ code = ""
    /\ remaining = ""
    /\ tokens \in TokenVectors \cup ExprVectors(MaxOps) \cup ForVectors \cup AssignVectors
    /\ errors = <<>>
    /\ lexer = "none"
    /\ lexpc = "parser"

\* main: `match parser.parse()`; program is the ast of the Ok arm, result
\* what parse returned (Panic: it did not return)
Parsed(r) ==
    /\ lexpc = "parser"
    /\ program' = IF r[1] = "ok" THEN r[2] ELSE <<>>
    /\ result' = CASE r[1] = "ok" -> <<"Ok">>
                   [] r[1] = "err" -> Err(r[2])
                   [] OTHER -> Panic
    /\ lexpc' = "parsed"

ParseCall ==
    \E ts \in {tokens} :
        LET r == parse(ts)
        IN  Parsed(r)
            /\ UNCHANGED <<variables, functions, out, code, remaining, tokens, errors, lexer>>

ParseSpec == ParseInit /\ [][ParseCall]_vars

\* C13: for every token vector parse returns, a list of nodes or an error;
\* it never aborts, also not for a vector that ends inside a method call's
\* argument list.
C13_ParserNeverAborts ==
    lexpc = "parsed" => result # Panic

\* operands joined by binary operators: a op b op c ...
IsExpression(ts) ==
    /\ Len(ts) % 2 = 1
    /\ \A i \in 1..Len(ts) :
        IF i % 2 = 1 THEN ts[i] = Operand((i + 1) \div 2)
        ELSE ts[i][1] = "OP" /\ ts[i][2] \in BinaryOps

\* the bands, loosest first
Band(op) ==
    IF op \in {"+", "-"} THEN 1
    ELSE IF op \in {"*", "/"} THEN 2
    ELSE 3

\* the tree of ts[lo..hi] when a tighter band groups first and a band
\* groups from the left: the root is the last operator of the loosest band
RECURSIVE Grouped(_, _, _)
Grouped(ts, lo, hi) ==
    IF lo = hi THEN Id(ts[lo][2])
    ELSE LET ops == {i \in lo..hi : i % 2 = 0}
             loosest == {i \in ops : \A j \in ops : Band(ts[i][2]) <= Band(ts[j][2])}
             root == CHOOSE i \in loosest : \A j \in loosest : j <= i
         IN  Bin(ts[root][2], Grouped(ts, lo, root - 1), Grouped(ts, root + 1, hi))

\* C14: operands joined by binary operators parse to the one tree in which
\* the comparison/logical band binds tightest, then * /, then + -, each
\* band grouping from the left.
C14_Precedence ==
    (lexpc = "parsed" /\ IsExpression(tokens))
    => /\ result = <<"Ok">>
       /\ program = <<Grouped(tokens, 1, Len(tokens))>>

\* a + b * c < d was parsed as a + (b * (c < d))
C14_Witness ==
    /\ lexpc = "parsed"
    /\ tokens = <<Operand(1), <<"OP", "+">>, Operand(2), <<"OP", "*">>, Operand(3),
                  <<"OP", "<">>, Operand(4)>>
    /\ program = <<Bin("+", Id("a"), Bin("*", Id("b"), Bin("<", Id("c"), Id("d"))))>>

IsArray(map, a) == a \in DOMAIN map /\ Tag(map[a]) = "Array"

\* C15: arrays are values.  a.push(3) and a[0] = 3 on a binding a that
\* holds an array change the binding a alone, whatever other bindings hold
\* (the same array, after c = x, included): a holds the array with 3
\* appended, or with 3 at index 0, and every other binding is as before.  A
\* function that pushes to and assigns into its parameter leaves the
\* caller's array, passed as the argument, as it was.
C15_ArrayValueSemantics ==
    [][RanOne =>
        /\ \A a \in Names :
            /\ (program'[1] = Push(a, Number(3)) /\ IsArray(variables, a))
               => /\ result' = Array(Append(variables[a][2], Number(3)))
                  /\ variables' = [variables EXCEPT ![a] = result']
            /\ (/\ program'[1] = Assign(Idx(Id(a), Number(0)), Number(3))
                /\ IsArray(variables, a)
                /\ variables[a][2] # <<>>)
               => /\ result' = Array([variables[a][2] EXCEPT ![1] = Number(3)])
                  /\ variables' = [variables EXCEPT ![a] = result']
        /\ (/\ program'[1] = Call("grow", <<Id("x")>>)
            /\ "grow" \in DOMAIN functions
            /\ IsArray(variables, "x"))
           => /\ result' = Array([Append(variables["x"][2], Number(3)) EXCEPT ![1] = Number(3)])
              /\ variables' = variables]_vars

\* x.push(3) has run where c holds the array x held: c still holds it
C15_Witness ==
    /\ program = <<Push("x", Number(3))>>
    /\ IsArray(variables, "c")
    /\ IsArray(variables, "x")
    /\ variables["x"] = Array(Append(variables["c"][2], Number(3)))

\* a step of lex that pushes a token, the token, and the text it matched
Pushed == Len(tokens') = Len(tokens) + 1
pushed == tokens'[Len(tokens')]
matched == Slice(remaining, 1, Len(remaining) - Len(remaining'))

\* C16: the lexeme of a STRING token is the matched text without its two
\* quotes, that of a REGEX token the matched text without its two
\* backslashes, and that of a NUMBER, FLOAT or BOOL token the matched text.
C16_LiteralLexemes ==
    [][Pushed =>
        /\ pushed[1] \in {"STRING", "REGEX"}
           => pushed[2] = Slice(matched, 2, Len(matched) - 1)
        /\ pushed[1] \in {"NUM", "NUMBER", "FLOAT", "BOOL"}
           => pushed[2] = matched]_vars

\* the offset lex is at, from 1
Offset == Len(code) - Len(remaining) + 1

\* a maximal run of [a-zA-Z_][a-zA-Z0-9_]* starts at offset p of s: a
\* letter with no letter among the name characters right before it
RunStarts(s, p) ==
    /\ CharAt(s, p) \in Letters
    /\ \A q \in 1..(p - 1) :
        (\A k \in q..(p - 1) : CharAt(s, k) \in Letters \cup Digits)
        => CharAt(s, q) \in Digits

ReservedTypes == {"int", "float", "bool", "string", "array", "void"}
ReservedBools == {"true", "false"}

\* C17: where a maximal run of name characters starts, the token pushed is
\* the whole run: a KEYWORD, TYPES or BOOL token when the run is a reserved
\* word, an ID token otherwise.
C17_NameIsOneToken ==
    [][(lexpc = "scan" /\ remaining # "" /\ RunStarts(code, Offset) /\ tokens' # tokens)
       => LET run == Slice(remaining, 1, id_len(remaining))
          IN  /\ Pushed
              /\ pushed[2] = run
              /\ pushed[1] = CASE run \in keywords(lexer) -> "KEYWORD"
                               [] run \in ReservedTypes -> "TYPES"
                               [] run \in ReservedBools -> "BOOL"
                               [] OTHER -> "ID"]_vars

----------------------------------------------------------------------------
(* main.rs, run on a file: the file is read, lexed by core/lexer.rs,       *)
(* parsed and interpreted by a new Interpreter.  lexpc is where the        *)
(* process is: "main" (started), "scan" (in lex), "returned" (lex          *)
(* returned), "parsed" (parse returned Ok), and, once it has ended,        *)
(* "exited" (main returned) or "panicked" (a panic unwound main).          *)

MaxFile == 4

\* the characters of the files: a digit, a name, the operators / and +
\* (twice: ++), the assignment sign, the point and the parenthesis of
\* calls, and a character of no token
FileChars == {"1", "x", "/", "+", "=", ".", "(", "@"}

RECURSIVE Files(_)
Files(n) ==
    IF n = 0 THEN {""}
    ELSE LET shorter == Files(n - 1)
         IN  shorter \cup {s \o c : s \in shorter, c \in FileChars}

CliInit ==
    /\ InterpInit
    /\ code = ""
    /\ remaining = ""
    /\ tokens = <<>>
    /\ errors = <<>>
    /\ lexer = "none"
    /\ lexpc = "main"

\* File::open(&args[1]).unwrap() or read_to_string(..).unwrap() on an Err
CliOpenFails ==
    /\ lexpc = "main"
    /\ lexpc' = "panicked"
    /\ UNCHANGED <<code, remaining, tokens, errors, lexer>>
    /\ UNCHANGED interpVars

\* the file is read and lex(&*code) is called
CliLex ==
    /\ lexpc = "main"
    /\ \E text \in Files(MaxFile) :
        /\ code' = text
        /\ remaining' = text
    /\ lexer' = Live
    /\ tokens' = <<>>
    /\ errors' = <<>>
    /\ lexpc' = "scan"
    /\ UNCHANGED interpVars

\* match parser.parse(): Ok(ast) goes on to the interpreter, Err(err) is
\* printed to stderr and main returns, a panic unwinds main
CliParsed(r) ==
    /\ lexpc = "returned"
    /\ lexer = Live
    /\ program' = IF r[1] = "ok" THEN r[2] ELSE <<>>
    /\ result' = IF r[1] = "err" THEN Err(r[2]) ELSE Void
    /\ lexpc' = CASE r[1] = "ok" -> "parsed"
                  [] r[1] = "err" -> "exited"
                  [] OTHER -> "panicked"
    /\ UNCHANGED <<variables, functions, out>>

CliParse ==
    \E ts \in {tokens} :
        LET r == parse(ts)
        IN  CliParsed(r) /\ UNCHANGED <<code, remaining, tokens, errors, lexer>>

\* Interpreter::new().interpret(&ast), then result.expect("Interpreter error")
CliInterpreted(r) ==
    /\ lexpc = "parsed"
    /\ r.val # Diverges
    /\ variables' = r.variables
    /\ functions' = r.functions
    /\ result' = r.val
    /\ out' = r.out
    /\ lexpc' = IF IsErr(r.val) THEN "panicked" ELSE "exited"
    /\ UNCHANGED program

CliInterpret ==
    \E ast \in {program} :
        LET r == interpret(ast, [variables |-> EmptyMap, functions |-> EmptyMap, out |-> <<>>])
        IN  CliInterpreted(r) /\ UNCHANGED <<code, remaining, tokens, errors, lexer>>

\* the status the process ends with: 0 when main returns, 101 when a panic
\* unwinds it (-1: it has not ended)
ExitStatus ==
    CASE lexpc = "exited" -> 0
      [] lexpc = "panicked" -> 101
      [] OTHER -> -1

CliNext ==
    \/ CliOpenFails
    \/ CliLex
    \/ LexMatch
    \/ LexPanic
    \/ LexReturn
    \/ CliParse
    \/ CliInterpret

CliSpec == CliInit /\ [][CliNext]_vars

Ended == {"exited", "panicked"}

\* C18: the process ends with status 1 when the file cannot be read or
\* lexing fails, 2 when parsing fails, 3 when interpretation fails, and 0
\* when the program ran.
C18_ExitCodes ==
    [][/\ (lexpc \in {"main", "scan"} /\ lexpc' \in Ended) => ExitStatus' = 1
       /\ (lexpc = "returned" /\ lexpc' \in Ended) => ExitStatus' = 2
       /\ (lexpc = "parsed" /\ lexpc' \in Ended)
          => ExitStatus' = IF IsErr(result') THEN 3 ELSE 0]_vars

\* the characters of s at which lex stands with no rule matching, in order
RECURSIVE Unmatched(_, _)
Unmatched(lx, s) ==
    IF s = "" THEN <<>>
    ELSE LET name == first_rule(lx, tokens_spec(lx), s)
         IN  IF name = "" THEN <<CharAt(s, 1)>> \o Unmatched(lx, Slice(s, 2, Len(s)))
             ELSE Unmatched(lx, Slice(s, match_end(lx, name, s) + 1, Len(s)))

\* C19: in core/lexer/lexer.rs, where no rule matches, one diagnostic for
\* the character there is added after those recorded, that one character is
\* skipped, no token is pushed and the scan goes on; when lex returns, the
\* diagnostics are those of the characters at which no rule matched, in
\* source order, and if there is any, lex returns them and no tokens.
C19_OneDiagnosticPerCharacter ==
    [][(lexer = Rewrite /\ lexpc = "scan") =>
        /\ (remaining # "" /\ first_rule(lexer, tokens_spec(lexer), remaining) = "")
           => /\ Len(errors') = Len(errors) + 1
              /\ SubSeq(errors', 1, Len(errors)) = errors
              /\ errors'[Len(errors')][1] = "UnexpectedCharacter"
              /\ errors'[Len(errors')][2] = CharAt(remaining, 1)
              /\ remaining' = Slice(remaining, 2, Len(remaining))
              /\ tokens' = tokens
              /\ lexpc' = "scan"
        /\ lexpc' = "returned"
           => /\ [k \in 1..Len(errors') |-> errors'[k][2]] = Unmatched(lexer, code)
              /\ errors' # <<>> => LexResult' = <<"Err", errors'>>]_vars

\* lex returned two diagnostics, and not the token it had pushed
C19_Witness ==
    /\ lexer = Rewrite
    /\ lexpc = "returned"
    /\ Len(errors) = 2
    /\ tokens # <<>>
    /\ LexResult = <<"Err", errors>>

\* C20: a call whose number of arguments differs from the function's
\* number of parameters fails with the arity error, and nothing of the
\* caller has changed: no argument was evaluated (x++ in an argument did not
\* happen) and the body did not run (nothing was printed).
C20_ArityCheckedFirst ==
    [][(/\ RanOne
        /\ Kind(program'[1]) = "FunctionCall"
        /\ program'[1][2] \in DOMAIN functions
        /\ Len(program'[1][3]) # Len(functions[program'[1][2]][1]))
       => /\ result' = Err("Function " \o program'[1][2] \o " expects "
                           \o NatToString(Len(functions[program'[1][2]][1]))
                           \o " arguments, got " \o NatToString(Len(program'[1][3])))
          /\ variables' = variables
          /\ functions' = functions
          /\ out' = <<>>]_vars

\* leak(x++, zz) was called with x a Number: two arguments for one parameter
C20_Witness ==
    /\ program = <<Call("leak", <<Inc("x"), Id("zz")>>)>>
    /\ "x" \in DOMAIN variables
    /\ Tag(variables["x"]) = "Number"
    /\ result = Err("Function leak expects 1 arguments, got 2")

\* the value of an index expression of the model: a literal, or x
IndexValue(e, map) == IF Kind(e) = "Number" THEN e[2] ELSE map["x"][2]
IndexIsNumber(e, map) ==
    \/ Kind(e) = "Number"
    \/ e = Id("x") /\ "x" \in DOMAIN map /\ Tag(map["x"]) = "Number"

OutOfBounds(i, n) ==
    Err("Index " \o IntToString(i) \o " out of bounds for array of length " \o NatToString(n))

\* C21: with a bound to a non-const array of length n, a[i] = 3 with
\* 0 <= i < n succeeds and leaves a the array with 3 at i and the other
\* elements as before; with i < 0 or i >= n the write a[i] = 3 and the read
\* a[i] fail with "Index i out of bounds for array of length n" and nothing
\* has changed.  An in-range read yields the element.
C21_IndexBounds ==
    [][RanOne =>
        \A a \in Names :
            LET stmt == program'[1]
                write == Kind(stmt) = "Assign" /\ Kind(stmt[2]) = "Index"
                         /\ stmt[2][2] = Id(a) /\ stmt[3] = Number(3)
                read == Kind(stmt) = "Index" /\ stmt[2] = Id(a)
                e == IF write THEN stmt[2][3] ELSE stmt[3]
                i == IndexValue(e, variables)
                arr == variables[a][2]
            IN  ((write \/ read) /\ IsArray(variables, a) /\ IndexIsNumber(e, variables))
                => IF 0 <= i /\ i < Len(arr)
                   THEN IF write
                        THEN /\ ~IsErr(result')
                             /\ variables' = [variables EXCEPT
                                    ![a] = Array([arr EXCEPT ![i + 1] = Number(3)])]
                        ELSE result' = arr[i + 1] /\ variables' = variables
                   ELSE result' = OutOfBounds(i, Len(arr)) /\ variables' = variables]_vars

\* c[x] = 3 failed for a negative x
C21_Witness ==
    /\ program = <<Assign(Idx(Id("c"), Id("x")), Number(3))>>
    /\ IsArray(variables, "c")
    /\ "x" \in DOMAIN variables
    /\ Tag(variables["x"]) = "Number"
    /\ variables["x"][2] < 0
    /\ result = OutOfBounds(variables["x"][2], Len(variables["c"][2]))

\* C22: del(x) on a bound x removes the binding x and no other, yields
\* Void and leaves the function table as it was; a reference to x then
\* fails as undefined.  del(e) on an expression that is no identifier
\* removes nothing and yields the value of e.
C22_DeleteRemovesOneBinding ==
    [][RanOne =>
        /\ \A x \in Names :
            /\ (program'[1] = Del(Id(x)) /\ x \in DOMAIN variables)
               => /\ result' = Void
                  /\ variables' = [n \in DOMAIN variables \ {x} |-> variables[n]]
                  /\ functions' = functions
            /\ (program'[1] = Printf(Id(x)) /\ x \notin DOMAIN variables)
               => result' = Err("Undefined variable: " \o x)
        /\ program'[1] = Del(One)
           => result' = One /\ variables' = variables /\ functions' = functions]_vars

\* del(x) has run and left c bound
C22_Witness ==
    /\ program = <<Del(Id("x"))>>
    /\ result = Void
    /\ "x" \notin DOMAIN variables
    /\ "c" \in DOMAIN variables

Bound(map, name, tag) == name \in DOMAIN map /\ Tag(map[name]) = tag

\* C23: a while loop runs its body only while the condition, evaluated
\* before each iteration, is Boolean(true): while (x) { x++ } with x bound
\* to a value that is no Boolean (a Number, zero or not, included) yields
\* Void with nothing run, and while (x < 2) { x++ } with x the Number n
\* runs until the condition is false, leaving x at 2 when n < 2 and as it
\* was otherwise.
C23_WhileNeedsTrue ==
    [][RanOne =>
        /\ (/\ program'[1] = While(Id("x"), <<Inc("x")>>)
            /\ "x" \in DOMAIN variables
            /\ Tag(variables["x"]) \notin {"Boolean", "ConstValue"})
           => result' = Void /\ variables' = variables /\ out' = <<>>
        /\ (/\ program'[1] = While(Bin("<", Id("x"), Number(2)), <<Inc("x")>>)
            /\ Bound(variables, "x", "Number"))
           => /\ result' = Void
              /\ variables' = [variables EXCEPT !["x"] =
                                  IF @[2] < 2 THEN Number(2) ELSE @]]_vars

\* while (x) { x++ } has ended at once for a positive Number
C23_Witness ==
    /\ program = <<While(Id("x"), <<Inc("x")>>)>>
    /\ Bound(variables, "x", "Number")
    /\ variables["x"][2] > 0
    /\ result = Void

\* C24: if (x) { x++ } else { x-- } with x the Number n runs x++ and not
\* x-- when n > 0, and x-- and not x++ otherwise; without an else it then
\* yields Void and changes nothing.  With x neither a Boolean nor a Number
\* it fails and runs neither branch.
C24_IfNumber ==
    [][RanOne =>
        \A els \in {None, Some(<<Dec("x")>>)} :
            (program'[1] = If(Id("x"), <<Inc("x")>>, els) /\ "x" \in DOMAIN variables)
            => /\ Tag(variables["x"]) = "Number"
                  => IF variables["x"][2] > 0
                     THEN variables' = [variables EXCEPT !["x"] = Number(@[2] + 1)]
                     ELSE IF els = None THEN result' = Void /\ variables' = variables
                     ELSE variables' = [variables EXCEPT !["x"] = Number(@[2] - 1)]
               /\ Tag(variables["x"]) \notin {"Number", "Boolean", "ConstValue"}
                  => IsErr(result') /\ variables' = variables]_vars

\* if (x) { x++ } else { x-- } has run x-- for a negative x
C24_Witness ==
    /\ program = <<If(Id("x"), <<Inc("x")>>, Some(<<Dec("x")>>))>>
    /\ Bound(variables, "x", "Number")
    /\ variables["x"][2] < -1
    /\ ~IsErr(result)

\* what main keeps of a parse that returned r: the ast and Ok, or the error
Outcome(r) ==
    IF r[1] = "ok" THEN <<r[2], <<"Ok">>>>
    ELSE IF r[1] = "err" THEN <<(<<>>), Err(r[2])>>
    ELSE <<(<<>>), Panic>>

\* the tokens open a for statement whose header does not begin with ID in
PlainFor(ts) ==
    /\ Len(ts) >= 2
    /\ ts[1] = <<"KEYWORD", "for">>
    /\ ts[2] = <<"LPAREN", "(">>
    /\ ~(TokType(ts, 3) = "ID" /\ TokType(ts, 4) = "KEYWORD" /\ TokVal(ts, 4) = "in")

\* C25: a for statement whose header does not begin with `ID in` is parsed
\* as init, condition and increment read from the first token after the
\* `(`, whatever token follows a leading ID.
C25_ForHeaderFromFirstToken ==
    (lexpc = "parsed" /\ PlainFor(tokens))
    => <<program, result>>
       = Outcome(Try(for_header(tokens, 3),
                     LAMBDA node, p : parse_loop(tokens, <<node>>, p)))

\* the nodes under a node the parser builds, the node itself included
RECURSIVE Nodes(_)
Nodes(n) ==
    {n} \cup UNION {Nodes(m) : m \in
        CASE Kind(n) \in {"Assign", "Index"} -> {n[2], n[3]}
          [] Kind(n) = "BinaryOp" -> {n[3], n[4]}
          [] Kind(n) = "UnaryOpTT" -> {n[3]}
          [] Kind(n) \in {"Print", "Delete"} -> {n[2]}
          [] Kind(n) = "MethodCall" -> {n[2]} \cup {n[4][i] : i \in DOMAIN n[4]}
          [] Kind(n) = "FunctionCall" -> {n[3][i] : i \in DOMAIN n[3]}
          [] Kind(n) = "For" -> {n[2], n[3], n[4]} \cup {n[5][i] : i \in DOMAIN n[5]}
          [] Kind(n) = "ForIn" -> {n[3]} \cup {n[4][i] : i \in DOMAIN n[4]}
          [] OTHER -> {}}

\* an Assign whose target is no Identifier and no Index, or a UnaryOpTT
\* whose operand is no Identifier
BadTarget(n) ==
    \/ Kind(n) = "Assign" /\ Kind(n[2]) \notin {"Identifier", "Index"}
    \/ Kind(n) = "UnaryOpTT" /\ Kind(n[3]) # "Identifier"

\* C26: no ast that parse returns holds an Assign whose left-hand side is
\* neither an Identifier nor an Index, nor a `++` / `--` whose operand is
\* not an Identifier.
C26_TargetsAreAssignable ==
    lexpc = "parsed"
    => \A i \in DOMAIN program : \A n \in Nodes(program[i]) : ~BadTarget(n)

\* C26 as the program has it: parse builds the Assign or the UnaryOpTT
\* whatever stands left of the operator, and the interpreter fails when it
\* comes to such a node; a run of an ast that holds one ends in an error,
\* the error of the node when the node is the first statement and its
\* right-hand side is a literal.
C26_RejectedWhenExecuted ==
    [][(lexpc = "parsed" /\ lexpc' \in Ended)
       => /\ (\E i \in DOMAIN program : \E n \in Nodes(program[i]) : BadTarget(n))
             => (IsErr(result') /\ lexpc' = "panicked")
          /\ (program # <<>> /\ BadTarget(program[1]) /\ Kind(program[1]) = "Assign"
              /\ Kind(program[1][3]) = "Number")
             => result' = Err("Assignment to non-identifier or non-index")
          /\ (program # <<>> /\ BadTarget(program[1]) /\ Kind(program[1]) = "UnaryOpTT")
             => result' = Err("++/-- can only be applied to variables")]_vars

\* 1=1 was parsed to an Assign with a Number on the left, and running it
\* failed
C26_Witness ==
    /\ lexpc = "panicked"
    /\ code = "1=1"
    /\ program = <<Assign(Number(1), Number(1))>>
    /\ result = Err("Assignment to non-identifier or non-index")

\* the items of the array that name holds, a constant one included
ItemsOf(map, name) == interpret_constant(map[name])[2]

\* C27: for c in x, x holding an array, runs the body once for each element
\* x had when the loop started, in order, until the body fails: also when
\* the body pushes to x, assigns into x or deletes x.  After del(x) the
\* iteration goes on to the next element (where the body then fails, x
\* being gone).
C27_ForInIteratesSnapshot ==
    [][(/\ RanOne
        /\ \E b \in IterBodies : program'[1] = ForIn("c", Id("x"), b)
        /\ "x" \in DOMAIN variables
        /\ Tag(interpret_constant(variables["x"])) = "Array")
       => /\ Len(out') <= Len(ItemsOf(variables, "x"))
          /\ out' = SubSeq(ItemsOf(variables, "x"), 1, Len(out'))
          /\ result' = Void => Len(out') = Len(ItemsOf(variables, "x"))
          /\ (program'[1][4][2] = Del(Id("x")) /\ Len(ItemsOf(variables, "x")) >= 2)
             => Len(out') = 2]_vars

\* the body assigned 0 to x[1] in the first iteration, and the second
\* printed the element x[1] was when the loop started
C27_Witness ==
    /\ program = <<ForIn("c", Id("x"), <<Printf(Id("c")),
                                         Assign(Idx(Id("x"), Number(1)), Number(0))>>)>>
    /\ result = Void
    /\ Len(out) >= 2
    /\ out[2] # Number(0)
    /\ "x" \in DOMAIN variables
    /\ variables["x"][2][2] = Number(0)

\* C28: the pos of every UnexpectedCharacter the lexer records is the
\* offset in the source text, counted from 0 as get_error_context counts
\* it, of the character that no rule matched.
C28_PosIsOffset ==
    [][Len(errors') > Len(errors)
       => /\ errors'[Len(errors')][2] = CharAt(remaining, 1)
          /\ errors'[Len(errors')][3] = Len(code) - Len(remaining)]_vars

----------------------------------------------------------------------------
(* main.rs, run_repl: one step per line read.  code is input_buffer,       *)
(* remaining the trimmed line just read, tokens, program and result what   *)
(* try_execute_code lexed, parsed and returned for the buffer (result is   *)
(* Pending when the buffer was not run), variables and functions the       *)
(* interpreter of the session.  lexpc is "repl" at the prompt, "exited"    *)
(* after the break, "panicked" after a panic.                              *)

MaxBuffer == 5

Pending == <<"Pending">>

\* lex of core/lexer.rs as a function: the tokens, or the panic where no
\* rule matches
RECURSIVE lex_loop(_, _)
lex_loop(s, toks) ==
    IF s = "" THEN <<"ok", toks>>
    ELSE LET name == first_rule(Live, tokens_spec(Live), s)
             end == match_end(Live, name, s)
         IN  IF name = "" THEN Panic
             ELSE lex_loop(Slice(s, end + 1, Len(s)),
                           IF name \in Skipped THEN toks
                           ELSE Append(toks, token(Live, name, Slice(s, 1, end))))

lex(s) == lex_loop(s, <<>>)

Count(s, c) == Cardinality({i \in 1..Len(s) : CharAt(s, i) = c})

is_complete_expression(s) ==
    /\ Count(s, "{") = Count(s, "}")
    /\ Count(s, "(") = Count(s, ")")
    /\ Count(s, "[") = Count(s, "]")

\* err.contains(word)
contains(err, word) ==
    \E i \in 1..(Len(err) - Len(word) + 1) : Slice(err, i, i + Len(word) - 1) = word

\* the lines typed: statements that run, that fail in the parser, that
\* fail in the interpreter, brackets alone, a character of no token, and
\* the empty line
Lines == {"1", "x=1", "x", "x+1", "+", "1+", "(1)", "(", ")", "@", ""}

\* if !input_buffer.is_empty() { push_str(" ") }; push_str(line)
pushed_line(buffer, line) ==
    IF buffer = "" THEN line ELSE buffer \o " " \o line

\* the Err arm of the match on try_execute_code: the buffer is kept when
\* the message holds Unexpected or Expected, and cleared otherwise
after_error(buffer, err) ==
    IF contains(err, "Unexpected") \/ contains(err, "Expected") THEN buffer ELSE ""

\* every buffer that lines of Lines add up to within MaxBuffer characters,
\* and, worked out once for each of them, what lex returns for it and what
\* parse returns for its tokens
RECURSIVE Buffers(_)
Buffers(n) ==
    IF n = 0 THEN {""}
    ELSE LET shorter == Buffers(n - 1)
         IN  shorter \cup {b \in {pushed_line(buf, line) : buf \in shorter, line \in Lines \ {""}} :
                              Len(b) <= MaxBuffer}

Lexed == [buf \in Buffers(MaxBuffer) |-> lex(buf)]

ParsedBuffer ==
    [buf \in Buffers(MaxBuffer) |->
        IF Lexed[buf][1] = "ok" THEN parse(Lexed[buf][2]) ELSE Panic]

ReplInit ==
    /\ InterpInit
    /\ code = ""
    /\ remaining = ""
    /\ tokens = <<>>
    /\ errors = <<>>
    /\ lexer = Live
    /\ lexpc = "repl"

\* try_execute_code(&input_buffer, &mut interpreter) for the buffer buf:
\* lexed is lex(buf), p parse of its tokens and r interpret of its ast
ReplTried(buf, lexed, p, r) ==
    /\ tokens' = IF lexed[1] = "ok" THEN lexed[2] ELSE <<>>
    /\ program' = IF p[1] = "ok" THEN p[2] ELSE <<>>
    /\ lexpc' = IF p[1] = "panic" THEN "panicked" ELSE "repl"
    /\ IF p[1] = "ok"
       THEN /\ r.val # Diverges
            /\ variables' = r.variables
            /\ functions' = r.functions
            /\ out' = r.out
            /\ result' = r.val
            /\ code' = IF IsErr(r.val) THEN after_error(buf, r.val[2]) ELSE ""
       ELSE /\ UNCHANGED <<variables, functions, out>>
            /\ result' = IF p[1] = "err" THEN Err(p[2]) ELSE Panic
            /\ code' = IF p[1] = "err" THEN after_error(buf, p[2]) ELSE buf

\* a line that is not a command is read
ReplRead(line) ==
    /\ lexpc = "repl"
    /\ remaining' = line
    /\ UNCHANGED <<errors, lexer>>
    /\ IF line = ""
       THEN UNCHANGED <<code, tokens, program, result, variables, functions, out, lexpc>>
       ELSE \E buf \in {pushed_line(code, line)} :
            /\ Len(buf) <= MaxBuffer
            /\ IF ~is_complete_expression(buf)
               THEN /\ code' = buf
                    /\ result' = Pending
                    /\ UNCHANGED <<tokens, program, variables, functions, out, lexpc>>
               ELSE \E p \in {ParsedBuffer[buf]} :
                    \E r \in {IF p[1] = "ok" THEN interpret(p[2], Current) ELSE Current} :
                        ReplTried(buf, Lexed[buf], p, r)

ReplLine == \E line \in Lines : ReplRead(line)

\* exit or quit is read: break
ReplExit ==
    /\ lexpc = "repl"
    /\ lexpc' = "exited"
    /\ remaining' = "exit"
    /\ UNCHANGED <<code, tokens, errors, lexer>>
    /\ UNCHANGED interpVars

ReplNext == ReplLine \/ ReplExit

\* the claim is about a session in which the well-formed statement 1 is
\* typed again for as long as the prompt takes it
ReplSpec == ReplInit /\ [][ReplNext]_vars /\ WF_vars(ReplRead("1"))

\* try_execute_code returned an Err for the buffer, which was balanced
Failed == lexpc = "repl" /\ IsErr(result)

\* the statement 1 was run with nothing before it in the buffer
RanAlone == remaining = "1" /\ program = <<One>> /\ result = One

\* C29: a failed input does not block later input.  The buffer does not
\* keep the failed text: when the statement 1, typed after it, has failed
\* together with it, the 1 typed on the next line is run on its own.
C29_FailedInputDoesNotBlock ==
    [][(Failed /\ remaining = "1" /\ remaining' = "1" /\ lexpc' = "repl")
       => RanAlone']_vars

\* the same as a property of whole sessions: after an input that failed
\* the statement 1 is in the end run on its own, unless the session has
\* ended or the buffer holds an open bracket
FailedLeadsToRanAlone ==
    [](Failed => <>(RanAlone \/ lexpc \in Ended \/ ~is_complete_expression(code)))

\* right-hand sides that are literals: each evaluates to itself
Literals ==
    {Number(2), Half, String("t"), Boolean(TRUE), Regex("r"), Array(<<Number(3)>>)}

\* C30: x = e where x is not bound creates the binding: x holds the value
\* of e (a literal of any variant, or what c holds, a constant included),
\* every other binding is as before, and the statement yields Void.
C30_AssignCreatesBinding ==
    [][(/\ RanOne
        /\ Kind(program'[1]) = "Assign"
        /\ program'[1][2] = Id("x")
        /\ "x" \notin DOMAIN variables)
       => /\ program'[1][3] \in Literals
             => /\ result' = Void
                /\ variables' = Insert(variables, "x", program'[1][3])
          /\ (program'[1][3] = Id("c") /\ "c" \in DOMAIN variables)
             => /\ result' = Void
                /\ variables' = Insert(variables, "x", variables["c"])]_vars

\* x = \r\ has run where no let had declared x: x is bound to the regex
C30_Witness ==
    /\ program = <<Assign(Id("x"), Regex("r"))>>
    /\ result = Void
    /\ DOMAIN variables = {"x"}
    /\ variables["x"] = Regex("r")
====
